---- MODULE Spec2Model ----
(***************************************************************************)
(* A model of jdocgen's symbol resolution: utils.ParseGenericType,         *)
(* utils.IsBasicType, utils.ReplaceTypeParams, the generator's             *)
(* resolvePackageAndType, collectStructsToDocument and                     *)
(* GenerateDocumentation with printStructDefinitionInline.                 *)
(*                                                                         *)
(* A Go string is a sequence of one-character strings, so that the         *)
(* byte-level functions (Index, LastIndex, Split, ReplaceAll, TrimSpace)   *)
(* are computed as the code computes them.                                 *)
(***************************************************************************)
EXTENDS Integers, Sequences, FiniteSets, TLC

(***************************************************************************)
(* Go's strings package, on sequences of characters.                       *)
(***************************************************************************)

\* s[i:j] of Go, 0-based, half-open.
Slice(s, i, j) == SubSeq(s, i + 1, j)

\* strings.Index(s, c) for a one-character c: 0-based, -1 when absent.
Index(s, c) ==
    IF \E i \in 1..Len(s) : s[i] = c
    THEN (CHOOSE i \in 1..Len(s) : s[i] = c /\ \A j \in 1..(i - 1) : s[j] # c) - 1
    ELSE -1

\* strings.LastIndex(s, c) for a one-character c: 0-based, -1 when absent.
LastIndex(s, c) ==
    IF \E i \in 1..Len(s) : s[i] = c
    THEN (CHOOSE i \in 1..Len(s) : s[i] = c /\ \A j \in (i + 1)..Len(s) : s[j] # c) - 1
    ELSE -1

\* strings.Contains(s, c) for a one-character c.
Contains(s, c) == \E i \in 1..Len(s) : s[i] = c

\* strings.HasPrefix(s, p).
HasPrefix(s, p) == Len(p) <= Len(s) /\ SubSeq(s, 1, Len(p)) = p

RECURSIVE TrimLeft(_)
TrimLeft(s) == IF s # <<>> /\ Head(s) = " " THEN TrimLeft(Tail(s)) ELSE s

RECURSIVE TrimRight(_)
TrimRight(s) ==
    IF s # <<>> /\ s[Len(s)] = " " THEN TrimRight(SubSeq(s, 1, Len(s) - 1)) ELSE s

\* strings.TrimSpace(s).
TrimSpace(s) == TrimRight(TrimLeft(s))

\* strings.Split(s, c) for a one-character separator c.
RECURSIVE SplitFrom(_, _, _)
SplitFrom(s, c, cur) ==
    IF s = <<>> THEN <<cur>>
    ELSE IF Head(s) = c THEN <<cur>> \o SplitFrom(Tail(s), c, <<>>)
    ELSE SplitFrom(Tail(s), c, Append(cur, Head(s)))

Split(s, c) == SplitFrom(s, c, <<>>)

\* strings.ReplaceAll(s, old, new) for a non-empty old: the non-overlapping
\* occurrences of old, left to right.
RECURSIVE ReplaceAll(_, _, _)
ReplaceAll(s, old, new) ==
    IF s = <<>> THEN <<>>
    ELSE IF HasPrefix(s, old)
         THEN new \o ReplaceAll(SubSeq(s, Len(old) + 1, Len(s)), old, new)
    ELSE <<Head(s)>> \o ReplaceAll(Tail(s), old, new)

\* strings.Join(parts, sep).
RECURSIVE Join(_, _)
Join(parts, sep) ==
    IF parts = <<>> THEN <<>>
    ELSE IF Len(parts) = 1 THEN parts[1]
    ELSE parts[1] \o sep \o Join(Tail(parts), sep)

(***************************************************************************)
(* utils (src/models/models.go, second half).                              *)
(***************************************************************************)

basicTypes ==
    { <<"b","o","o","l">>, <<"s","t","r","i","n","g">>,
      <<"i","n","t">>, <<"i","n","t","8">>, <<"i","n","t","1","6">>,
      <<"i","n","t","3","2">>, <<"i","n","t","6","4">>,
      <<"u","i","n","t">>, <<"u","i","n","t","8">>, <<"u","i","n","t","1","6">>,
      <<"u","i","n","t","3","2">>, <<"u","i","n","t","6","4">>,
      <<"u","i","n","t","p","t","r">>,
      <<"b","y","t","e">>, <<"r","u","n","e">>,
      <<"f","l","o","a","t","3","2">>, <<"f","l","o","a","t","6","4">>,
      <<"c","o","m","p","l","e","x","6","4">>,
      <<"c","o","m","p","l","e","x","1","2","8">> }

\* A plausible slip: the signed integer spelling is missing from the list.
IsBasicTypeNoInt(typ) == typ \in (basicTypes \ { <<"i","n","t">> })

IsBasicType(typ) == typ \in basicTypes

\* The loop of splitTypeArguments: st = [args, current, depth] after the
\* runes of argsStr seen so far.
RECURSIVE splitLoop(_, _)
splitLoop(argsStr, st) ==
    IF argsStr = <<>> THEN st
    ELSE LET r == Head(argsStr)
             nx == IF r = "["
                   THEN [st EXCEPT !.depth = @ + 1, !.current = Append(@, r)]
                   ELSE IF r = "]"
                   THEN [st EXCEPT !.depth = @ - 1, !.current = Append(@, r)]
                   ELSE IF r = ","
                   THEN IF st.depth = 0
                        THEN [st EXCEPT !.args = Append(@, TrimSpace(st.current)),
                                        !.current = <<>>]
                        ELSE [st EXCEPT !.current = Append(@, r)]
                   ELSE [st EXCEPT !.current = Append(@, r)]
         IN splitLoop(Tail(argsStr), nx)

\* A plausible slip: every comma splits, whatever the bracket depth.
splitTypeArgumentsFlat(argsStr) ==
    LET parts == Split(argsStr, ",")
    IN [i \in 1..Len(parts) |-> TrimSpace(parts[i])]

splitTypeArguments(argsStr) ==
    LET st == splitLoop(argsStr, [args |-> <<>>, current |-> <<>>, depth |-> 0])
    IN IF Len(st.current) > 0 THEN Append(st.args, TrimSpace(st.current)) ELSE st.args

\* ParseGenericType returns (baseType, typeArgs) as a record.
ParseGenericType(typ) ==
    LET start == Index(typ, "[")
        end == LastIndex(typ, "]")
    IN IF start = -1 \/ end = -1 \/ end <= start + 1
       THEN [base |-> typ, args |-> <<>>]
       ELSE [base |-> TrimSpace(Slice(typ, 0, start)),
             args |-> splitTypeArguments(Slice(typ, start + 1, end))]

\* The loop of ReplaceTypeParams: one strings.ReplaceAll per type parameter, each
\* applied to the result of the one before.
RECURSIVE replaceLoop(_, _, _, _)
replaceLoop(typ, typeParams, concreteTypes, i) ==
    IF i > Len(typeParams) THEN typ
    ELSE replaceLoop(ReplaceAll(typ, typeParams[i].Name, concreteTypes[i]),
                     typeParams, concreteTypes, i + 1)

\* A variant without the test of the two lengths: it substitutes the positions
\* both lists have.
ReplaceTypeParamsAnyCount(typ, typeParams, concreteTypes) ==
    LET n == IF Len(typeParams) < Len(concreteTypes) THEN Len(typeParams)
             ELSE Len(concreteTypes)
    IN replaceLoop(typ, SubSeq(typeParams, 1, n), SubSeq(concreteTypes, 1, n), 1)

ReplaceTypeParams(typ, typeParams, concreteTypes) ==
    IF Len(typeParams) # Len(concreteTypes) THEN typ
    ELSE replaceLoop(typ, typeParams, concreteTypes, 1)

(***************************************************************************)
(* Spellings used by the inputs.                                           *)
(***************************************************************************)

pkgH == <<"h">>
pkgM == <<"m">>
nA == <<"A">>
nB == <<"B">>
nP == <<"P">>
tInt == <<"i","n","t">>
tString == <<"s","t","r","i","n","g">>
tBool == <<"b","o","o","l">>
tBytes == <<"[","]","b","y","t","e">>
tQualMA == <<"m",".","A">>
tQualXA == <<"x",".","A">>
tPofA == <<"P","[","A","]">>
tSliceA == <<"[","]","A">>
tPtrA == <<"*","A">>
tMapA == <<"m","a","p","[","s","t","r","i","n","g","]","A">>
tSliceB == <<"[","]","B">>
tPtrB == <<"*","B">>
tMapB == <<"m","a","p","[","s","t","r","i","n","g","]","B">>

StructKey(pkg, name) == [Package |-> pkg, Name |-> name]

StructField(typ) == [Name |-> <<"F">>, Type |-> typ]

StructDefinition(name, fieldTypes) ==
    [Name |-> name,
     Fields |-> [i \in 1..Len(fieldTypes) |-> StructField(fieldTypes[i])],
     TypeParams |-> <<>>]

(***************************************************************************)
(* generator.resolvePackageAndType: (pkg, typeName) as a record; the empty *)
(* string for both when the type cannot be resolved.                       *)
(***************************************************************************)

resolveQualified(parts, importAliases) ==
    IF parts[1] \in DOMAIN importAliases
    THEN [pkg |-> importAliases[parts[1]], typeName |-> parts[2]]
    ELSE [pkg |-> parts[1], typeName |-> parts[2]]

resolveUnqualified(typ, currentPackage, defs) ==
    IF StructKey(currentPackage, typ) \in DOMAIN defs
    THEN [pkg |-> currentPackage, typeName |-> typ]
    ELSE [pkg |-> <<>>, typeName |-> <<>>]

resolvePackageAndType(typ, currentPackage, importAliases, defs) ==
    IF Contains(typ, ".")
    THEN LET parts == Split(typ, ".")
         IN IF Len(parts) # 2
            THEN [pkg |-> <<>>, typeName |-> <<>>]
            ELSE resolveQualified(parts, importAliases)
    ELSE resolveUnqualified(typ, currentPackage, defs)

(***************************************************************************)
(* The inputs: catalogs (structDefinitions) and API functions.             *)
(***************************************************************************)

\* The deepest nesting of calls the model follows before it reports the
\* goroutine's stack as exhausted.
MaxDepth == 5

aliasXM == [a \in { <<"x">> } |-> pkgM]

APIFunction(cmd, pkg, params, results, additional) ==
    [Command |-> cmd,
     PackageName |-> pkg,
     ImportAliases |-> aliasXM,
     Parameters |-> [i \in 1..Len(params) |-> [Type |-> params[i]]],
     Results |-> [i \in 1..Len(results) |-> [Type |-> results[i]]],
     AdditionalStructs |-> additional]

\* Field lists of the structures named A and B.
FieldLists ==
    { <<>>, <<nA>>, <<nB>>, <<nB, nB>>, <<tInt, tBytes>>, <<tQualMA>> }

FieldListsM == { <<>>, <<nB>> }

\* Field lists that name B behind a pointer, slice or map decoration.
DecoratedFieldLists == { <<tSliceB>>, <<tPtrB>>, <<tMapB>> }

hA == StructKey(pkgH, nA)
hB == StructKey(pkgH, nB)
mA == StructKey(pkgM, nA)
mB == StructKey(pkgM, nB)
hInt == StructKey(pkgH, tInt)
hP == StructKey(pkgH, nP)
hPofA == StructKey(pkgH, tPofA)

CatalogOf(keys, fieldsOf) ==
    [k \in keys |-> StructDefinition(k.Name, fieldsOf[k])]

Catalogs ==
    { CatalogOf({hA, hB}, [k \in {hA, hB} |-> IF k = hA THEN fa ELSE fb]) :
        fa \in FieldLists, fb \in FieldLists }
    \cup
    { CatalogOf({hA, hB, mA},
                [k \in {hA, hB, mA} |-> IF k = hA THEN fa ELSE IF k = hB THEN fb ELSE fm]) :
        fa \in { <<nB>>, <<tQualMA>> }, fb \in { <<>>, <<nA>> }, fm \in FieldListsM }
    \cup
    { CatalogOf({mA, mB}, [k \in {mA, mB} |-> IF k = mA THEN fm ELSE <<>>]) :
        fm \in FieldListsM }
    \cup
    { CatalogOf({hA, hInt}, [k \in {hA, hInt} |-> IF k = hA THEN <<tInt>> ELSE <<>>]) }
    \cup
    { CatalogOf({hA, hB}, [k \in {hA, hB} |-> IF k = hA THEN fa ELSE <<>>]) :
        fa \in DecoratedFieldLists }
    \cup
    { CatalogOf({hA, hP, hPofA},
                [k \in {hA, hP, hPofA} |-> IF k = hA THEN fa ELSE <<nA>>]) :
        fa \in { <<>>, <<tPofA>> } }

SeedTypes ==
    { nA, nB, tQualMA, tQualXA, tInt, tString, tBool, tBytes, tPofA,
      tSliceA, tPtrA, tMapA }

Packages == { pkgH, pkgM }

cmdA == <<"a">>
cmdB == <<"b">>

\* The functions handed to GenerateDocumentation.
GenFunctions(cmd) ==
    { APIFunction(cmd, pkg, <<>>, <<r>>, <<>>) : pkg \in Packages, r \in SeedTypes }
    \cup
    { APIFunction(cmd, pkg, <<>>, <<>>, add) : pkg \in Packages,
        add \in { <<nA>>, <<tQualXA, nA>>, <<tPofA>>, <<tInt, nB>> } }
    \cup
    { APIFunction(cmd, pkg, <<>>, <<nA>>, <<nA>>) : pkg \in Packages }
    \cup
    { APIFunction(cmd, pkg, <<>>, <<>>, <<>>) : pkg \in Packages }
    \cup
    { APIFunction(cmd, pkg, <<p>>, res, <<>>) : pkg \in Packages, p \in { nA, nB, tInt },
        res \in { <<>>, <<nB>> } }

\* The functions handed to collectStructsToDocument.
ColFunctions(cmd) ==
    { APIFunction(cmd, pkg, <<>>, <<r>>, <<>>) : pkg \in Packages, r \in SeedTypes }
    \cup
    { APIFunction(cmd, pkg, <<p>>, <<>>, <<>>) : pkg \in Packages,
        p \in { nA, nB, tQualXA, tInt } }
    \cup
    { APIFunction(cmd, pkg, <<nB>>, <<nA>>, <<>>) : pkg \in Packages }

SecondFunctions(cmd) ==
    { APIFunction(cmd, pkgH, <<>>, <<r>>, <<>>) : r \in { nA, nB } }

FunctionLists(first) ==
    { <<f>> : f \in first }
    \cup
    { <<f, g>> : f \in SecondFunctions(cmdB), g \in SecondFunctions(cmdA) }
    \cup
    { <<f, g>> : f \in SecondFunctions(cmdA), g \in SecondFunctions(cmdB) }

(***************************************************************************)
(* State.                                                                  *)
(***************************************************************************)

VARIABLES
    entry,              \* which function of the package runs
    structDefinitions,  \* map[StructKey]StructDefinition
    apiFunctions,       \* []APIFunction
    pc,                 \* position in the running function
    fnIdx,              \* index of the API function of the outer loop
    itemIdx,            \* index in the inner loop (results, additional, seeds)
    ret,                \* the loop a finished recursion returns to
    stack,              \* frames of the recursive calls in progress
    visited,            \* the visited map in scope
    structsToDocument,  \* collectStructsToDocument's result map
    written,            \* keys whose table was written for the current function
    sections,           \* per documented function: its command and written tables
    lastRes,            \* the most recent resolution of a type reference
    parse,              \* a call of ParseGenericType: its argument and its result
    instLog,            \* the instantiations requested so far, with their outcomes
    err,                \* the error the running function returned, "none" while it runs
    files,              \* the source tree ParseProject walks
    processedStructs,   \* ParseProject's processedStructs map, as the set of its keys
    projectInfoSet,     \* ParseProject's projectInfoSet
    walk                \* where ParseProject's own walk stands

vars == <<entry, structDefinitions, apiFunctions, pc, fnIdx, itemIdx, ret, stack,
          visited, structsToDocument, written, sections, lastRes, parse, instLog, err,
          files, processedStructs, projectInfoSet, walk>>

noKey == StructKey(<<>>, <<>>)

noRes ==
    [site |-> "none", typ |-> <<>>, ctx |-> <<>>, aliases |-> <<>>,
     found |-> FALSE, key |-> noKey, candidates |-> {}]

Resolution(site, typ, ctx, aliases, found, key, candidates) ==
    [site |-> site, typ |-> typ, ctx |-> ctx, aliases |-> aliases,
     found |-> found, key |-> key, candidates |-> candidates]

noWalk ==
    [file |-> 1, decl |-> 1, field |-> 1, structDef |-> [Name |-> <<>>, Fields |-> <<>>],
     pending |-> [apiFunc |-> <<>>, err |-> "nil", lookup |-> <<>>],
     before |-> [structDefinitions |-> <<>>, processedStructs |-> {}],
     returned |-> [doc |-> <<>>, err |-> "none", included |-> FALSE, logged |-> FALSE]]

noParse ==
    [base |-> <<>>, args |-> <<>>, typ |-> <<>>, called |-> FALSE,
     out |-> [base |-> <<>>, args |-> <<>>]]

Frame(fpc, typ, pkg, aliases, key, args, i) ==
    [pc |-> fpc, typ |-> typ, pkg |-> pkg, aliases |-> aliases,
     key |-> key, args |-> args, i |-> i]

PrintFrame(key) == Frame("print", <<>>, <<>>, <<>>, key, <<>>, 0)

Top == stack[Len(stack)]

Pop == SubSeq(stack, 1, Len(stack) - 1)

SetTop(f) == [stack EXCEPT ![Len(stack)] = f]

(***************************************************************************)
(* sort.Slice(apiFunctions, by Command).                                   *)
(***************************************************************************)

Alphabet == <<"a", "b">>

CharOrd(c) == CHOOSE i \in 1..Len(Alphabet) : Alphabet[i] = c

RECURSIVE StrLess(_, _)
StrLess(s, t) ==
    IF t = <<>> THEN FALSE
    ELSE IF s = <<>> THEN TRUE
    ELSE IF Head(s) = Head(t) THEN StrLess(Tail(s), Tail(t))
    ELSE CharOrd(Head(s)) < CharOrd(Head(t))

Orderings(seq) ==
    { [i \in 1..Len(seq) |-> seq[f[i]]] :
        f \in { g \in [1..Len(seq) -> 1..Len(seq)] :
                    \A a, b \in 1..Len(seq) : a # b => g[a] # g[b] } }

\* sort.Slice is not stable: any ordering by Command may come out.
SortedByCommand(seq) ==
    { p \in Orderings(seq) :
        \A a, b \in 1..Len(p) : a < b => ~StrLess(p[b].Command, p[a].Command) }

(***************************************************************************)
(* GenerateDocumentation (the revision with inline structures).            *)
(***************************************************************************)

CurFunc == apiFunctions[fnIdx]

\* A plausible slip: the comparison with the name is missing from the scan.
KeysNamedAnything(defs, name) == DOMAIN defs

\* `for key := range structDefinitions { if key.Name == name { ...; break } }':
\* the keys the loop can stop at, map iteration order being unspecified.
KeysNamed(defs, name) == { k \in DOMAIN defs : k.Name = name }

GenStart ==
    /\ entry = "generate"
    /\ pc = "start"
    /\ \E sorted \in SortedByCommand(apiFunctions) : apiFunctions' = sorted
    /\ fnIdx' = 1
    /\ pc' = "func"
    /\ UNCHANGED <<files, processedStructs, projectInfoSet, walk, err, parse, instLog, entry, structDefinitions, itemIdx, ret, stack, visited,
                   structsToDocument, written, sections, lastRes>>

\* What the writer holds for one function: the command header, the type column
\* of the Parameters and Results tables, and the structure tables written after
\* them.
Section(apiFunc, tables) ==
    [Command |-> apiFunc.Command,
     Parameters |-> [i \in 1..Len(apiFunc.Parameters) |-> apiFunc.Parameters[i].Type],
     Results |-> [i \in 1..Len(apiFunc.Results) |-> apiFunc.Results[i].Type],
     written |-> tables]

\* The head of the loop over apiFunctions: the command header and the
\* Parameters and Results tables with the raw type spellings.
GenFunction ==
    /\ entry = "generate"
    /\ pc = "func"
    /\ fnIdx <= Len(apiFunctions)
    /\ written' = <<>>
    /\ visited' = {}
    /\ itemIdx' = 1
    /\ sections' = Append(sections, Section(CurFunc, <<>>))
    /\ pc' = "results"
    /\ UNCHANGED <<files, processedStructs, projectInfoSet, walk, err, parse, instLog, entry, structDefinitions, apiFunctions, fnIdx, ret, stack,
                   structsToDocument, lastRes>>

\* writer.Flush() and return nil.
GenFinish ==
    /\ entry = "generate"
    /\ pc = "func"
    /\ fnIdx > Len(apiFunctions)
    /\ pc' = "done"
    /\ err' = "nil"
    /\ UNCHANGED <<files, processedStructs, projectInfoSet, walk, parse, instLog, entry, structDefinitions, apiFunctions, fnIdx, itemIdx, ret, stack,
                   visited, structsToDocument, written, sections, lastRes>>

\* One iteration of the loop over apiFunc.Results.
GenResult ==
    /\ entry = "generate"
    /\ pc = "results"
    /\ itemIdx <= Len(CurFunc.Results)
    /\ LET typ == CurFunc.Results[itemIdx].Type
           parsed == ParseGenericType(typ)
           concreteType == typ
           first == KeysNamed(structDefinitions, concreteType)
           second == IF first = {} /\ Len(parsed.args) = 0
                     THEN KeysNamed(structDefinitions, parsed.base)
                     ELSE {}
           candidates == first \cup second
       IN /\ itemIdx' = itemIdx + 1
          /\ IF IsBasicType(parsed.base) \/ candidates = {}
             THEN /\ lastRes' = Resolution("result", typ, CurFunc.PackageName,
                                           CurFunc.ImportAliases, FALSE, noKey, {})
                  /\ UNCHANGED <<pc, ret, stack>>
             ELSE \E resolvedKey \in candidates :
                  /\ lastRes' = Resolution("result", typ, CurFunc.PackageName,
                                           CurFunc.ImportAliases, TRUE, resolvedKey,
                                           candidates)
                  /\ stack' = <<PrintFrame(resolvedKey)>>
                  /\ ret' = "results"
                  /\ pc' = "print"
    /\ UNCHANGED <<files, processedStructs, projectInfoSet, walk, err, parse, instLog, entry, structDefinitions, apiFunctions, fnIdx, visited,
                   structsToDocument, written, sections>>

\* The end of the Results loop: on to the Additional Structs section, with a
\* fresh visited map.
GenResultsDone ==
    /\ entry = "generate"
    /\ pc = "results"
    /\ itemIdx > Len(CurFunc.Results)
    /\ visited' = {}
    /\ itemIdx' = 1
    /\ pc' = "additional"
    /\ UNCHANGED <<files, processedStructs, projectInfoSet, walk, err, parse, instLog, entry, structDefinitions, apiFunctions, fnIdx, ret, stack,
                   structsToDocument, written, sections, lastRes>>

\* A plausible slip: an argument that resolves to nothing keeps the empty name.
ResolvedArgNoFallback(arg, apiFunc, defs) ==
    LET r == resolvePackageAndType(arg, apiFunc.PackageName, apiFunc.ImportAliases, defs)
    IN IF r.pkg # <<>> /\ r.pkg # apiFunc.PackageName
       THEN r.pkg \o <<".">> \o r.typeName
       ELSE r.typeName

\* The display name of one type argument of an @Additional reference.
ResolvedArg(arg, apiFunc, defs) ==
    LET r == resolvePackageAndType(arg, apiFunc.PackageName, apiFunc.ImportAliases, defs)
        argName == IF r.typeName = <<>> THEN arg ELSE r.typeName
    IN IF r.pkg # <<>> /\ r.pkg # apiFunc.PackageName
       THEN r.pkg \o <<".">> \o argName
       ELSE argName

\* fmt.Sprintf("%s[%s]", baseName, strings.Join(resolvedArgs, ", ")).
ConcreteTypeName(baseName, typeArgs, apiFunc, defs) ==
    IF Len(typeArgs) > 0
    THEN baseName \o <<"[">>
         \o Join([i \in 1..Len(typeArgs) |-> ResolvedArg(typeArgs[i], apiFunc, defs)],
                 <<",", " ">>)
         \o <<"]">>
    ELSE baseName

\* One iteration of the loop over apiFunc.AdditionalStructs.
GenAdditional ==
    /\ entry = "generate"
    /\ pc = "additional"
    /\ itemIdx <= Len(CurFunc.AdditionalStructs)
    /\ LET additional == CurFunc.AdditionalStructs[itemIdx]
           parsed == ParseGenericType(additional)
           r == resolvePackageAndType(parsed.base, CurFunc.PackageName,
                                      CurFunc.ImportAliases, structDefinitions)
           concreteType == ConcreteTypeName(r.typeName, parsed.args, CurFunc,
                                            structDefinitions)
           resolvedKey == StructKey(r.pkg, concreteType)
           found == resolvedKey \in DOMAIN structDefinitions
       IN /\ itemIdx' = itemIdx + 1
          /\ IF IsBasicType(parsed.base) \/ r.typeName = <<>> \/ ~found
             THEN /\ lastRes' = Resolution("additional", additional, CurFunc.PackageName,
                                           CurFunc.ImportAliases, FALSE, noKey, {})
                  /\ UNCHANGED <<pc, ret, stack>>
             ELSE /\ lastRes' = Resolution("additional", additional, CurFunc.PackageName,
                                           CurFunc.ImportAliases, TRUE, resolvedKey,
                                           {resolvedKey})
                  /\ stack' = <<PrintFrame(resolvedKey)>>
                  /\ ret' = "additional"
                  /\ pc' = "print"
    /\ UNCHANGED <<files, processedStructs, projectInfoSet, walk, err, parse, instLog, entry, structDefinitions, apiFunctions, fnIdx, visited,
                   structsToDocument, written, sections>>

\* The end of one function's section: the Errors table and the rule.
GenFunctionDone ==
    /\ entry = "generate"
    /\ pc = "additional"
    /\ itemIdx > Len(CurFunc.AdditionalStructs)
    /\ sections' = [sections EXCEPT ![Len(sections)] = Section(CurFunc, written)]
    /\ fnIdx' = fnIdx + 1
    /\ pc' = "func"
    /\ UNCHANGED <<files, processedStructs, projectInfoSet, walk, err, parse, instLog, entry, structDefinitions, apiFunctions, itemIdx, ret, stack,
                   visited, structsToDocument, written, lastRes>>

(***************************************************************************)
(* printStructDefinitionInline.  The visited map is a parameter the body   *)
(* neither reads nor writes.                                               *)
(***************************************************************************)

\* Entry of a call: the lookup of key, then the header and the field table.
PrintEnter ==
    /\ pc = "print"
    /\ Top.pc = "print"
    /\ Top.i = 0
    /\ IF Top.key \in DOMAIN structDefinitions
       THEN /\ written' = Append(written, Top.key)
            /\ stack' = SetTop([Top EXCEPT !.i = 1])
       ELSE /\ stack' = Pop
            /\ UNCHANGED written
    /\ UNCHANGED <<files, processedStructs, projectInfoSet, walk, err, parse, instLog, entry, structDefinitions, apiFunctions, pc, fnIdx, itemIdx, ret,
                   visited, structsToDocument, sections, lastRes>>

\* One iteration of the second loop over structDef.Fields.
PrintField ==
    /\ pc = "print"
    /\ Top.pc = "print"
    /\ Top.i >= 1
    /\ Top.i <= Len(structDefinitions[Top.key].Fields)
    /\ LET field == structDefinitions[Top.key].Fields[Top.i]
           parsed == ParseGenericType(field.Type)
           r == resolvePackageAndType(parsed.base, Top.key.Package, <<>>,
                                      structDefinitions)
           concreteType == IF Len(parsed.args) > 0
                           THEN r.typeName \o <<"[">> \o Join(parsed.args, <<",", " ">>)
                                \o <<"]">>
                           ELSE r.typeName
           first == KeysNamed(structDefinitions, concreteType)
           second == IF first = {} /\ Len(parsed.args) = 0
                     THEN { k \in DOMAIN structDefinitions :
                              k.Name = r.typeName /\ (r.pkg = <<>> \/ k.Package = r.pkg) }
                     ELSE {}
           candidates == first \cup second
           next == SetTop([Top EXCEPT !.i = @ + 1])
       IN IF IsBasicType(parsed.base) \/ r.typeName = <<>> \/ candidates = {}
          THEN /\ stack' = next
               /\ lastRes' = Resolution("field", field.Type, Top.key.Package, <<>>,
                                        FALSE, noKey, {})
               /\ UNCHANGED pc
          ELSE \E fieldResolvedKey \in candidates :
               /\ lastRes' = Resolution("field", field.Type, Top.key.Package, <<>>,
                                        TRUE, fieldResolvedKey, candidates)
               /\ IF Len(stack) >= MaxDepth
                  THEN /\ pc' = "overflow"
                       /\ UNCHANGED stack
                  ELSE /\ stack' = Append(next, PrintFrame(fieldResolvedKey))
                       /\ UNCHANGED pc
    /\ UNCHANGED <<files, processedStructs, projectInfoSet, walk, err, parse, instLog, entry, structDefinitions, apiFunctions, fnIdx, itemIdx, ret,
                   visited, structsToDocument, written, sections>>

\* The end of the field loop: the call returns.
PrintReturn ==
    /\ pc = "print"
    /\ Top.pc = "print"
    /\ Top.i > Len(structDefinitions[Top.key].Fields)
    /\ stack' = Pop
    /\ pc' = IF Len(stack) = 1 THEN ret ELSE pc
    /\ UNCHANGED <<files, processedStructs, projectInfoSet, walk, err, parse, instLog, entry, structDefinitions, apiFunctions, fnIdx, itemIdx, ret,
                   visited, structsToDocument, written, sections, lastRes>>

(***************************************************************************)
(* collectStructsToDocument and collectStructsFromType.                    *)
(***************************************************************************)

\* The types the loops over apiFunc.Parameters and apiFunc.Results hand to
\* collectStructsFromType, in order.
Seeds(apiFunc) ==
    [i \in 1..Len(apiFunc.Parameters) |-> apiFunc.Parameters[i].Type]
    \o [i \in 1..Len(apiFunc.Results) |-> apiFunc.Results[i].Type]

CallFrame(typ, pkg, aliases) == Frame("enter", typ, pkg, aliases, noKey, <<>>, 1)

ColStart ==
    /\ entry = "collect"
    /\ pc = "start"
    /\ structsToDocument' = {}
    /\ visited' = {}
    /\ fnIdx' = 1
    /\ itemIdx' = 1
    /\ pc' = "seeds"
    /\ UNCHANGED <<files, processedStructs, projectInfoSet, walk, err, parse, instLog, entry, structDefinitions, apiFunctions, ret, stack, written,
                   sections, lastRes>>

\* A call of collectStructsFromType from the loops of collectStructsToDocument.
ColSeed ==
    /\ entry = "collect"
    /\ pc = "seeds"
    /\ fnIdx <= Len(apiFunctions)
    /\ itemIdx <= Len(Seeds(CurFunc))
    /\ stack' = <<CallFrame(Seeds(CurFunc)[itemIdx], CurFunc.PackageName,
                            CurFunc.ImportAliases)>>
    /\ itemIdx' = itemIdx + 1
    /\ pc' = "collect"
    /\ UNCHANGED <<files, processedStructs, projectInfoSet, walk, err, parse, instLog, entry, structDefinitions, apiFunctions, fnIdx, ret, visited,
                   structsToDocument, written, sections, lastRes>>

ColNextFunction ==
    /\ entry = "collect"
    /\ pc = "seeds"
    /\ fnIdx <= Len(apiFunctions)
    /\ itemIdx > Len(Seeds(CurFunc))
    /\ fnIdx' = fnIdx + 1
    /\ itemIdx' = 1
    /\ UNCHANGED <<files, processedStructs, projectInfoSet, walk, err, parse, instLog, entry, structDefinitions, apiFunctions, pc, ret, stack, visited,
                   structsToDocument, written, sections, lastRes>>

\* return structsToDocument.
ColFinish ==
    /\ entry = "collect"
    /\ pc = "seeds"
    /\ fnIdx > Len(apiFunctions)
    /\ pc' = "done"
    /\ UNCHANGED <<files, processedStructs, projectInfoSet, walk, err, parse, instLog, entry, structDefinitions, apiFunctions, fnIdx, itemIdx, ret, stack,
                   visited, structsToDocument, written, sections, lastRes>>

\* A return of collectStructsFromType.
Return(st) ==
    /\ stack' = st
    /\ pc' = IF st = <<>> THEN "seeds" ELSE pc

\* A plausible slip: the guard on the visited map is missing.
SeenNever(key, vis) == FALSE

\* A variant whose guard is the map instead of the key: once any structure has
\* been visited, every key counts as seen.
SeenAfterFirst(key, vis) == vis # {}

Seen(key, vis) == key \in vis

\* The head of collectStructsFromType: parse, skip basic types, resolve, add
\* the key to structsToDocument.
ColEnter ==
    /\ pc = "collect"
    /\ Top.pc = "enter"
    /\ LET parsed == ParseGenericType(Top.typ)
           r == resolvePackageAndType(parsed.base, Top.pkg, Top.aliases,
                                      structDefinitions)
           key == StructKey(r.pkg, r.typeName)
       IN IF IsBasicType(parsed.base) \/ r.typeName = <<>>
          THEN /\ Return(Pop)
               /\ lastRes' = Resolution("collect", Top.typ, Top.pkg, Top.aliases,
                                        FALSE, noKey, {})
               /\ UNCHANGED structsToDocument
          ELSE /\ structsToDocument' = structsToDocument \cup {key}
               /\ lastRes' = Resolution("collect", Top.typ, Top.pkg, Top.aliases,
                                        TRUE, key, {key})
               /\ stack' = SetTop([Top EXCEPT !.pc = "args", !.key = key,
                                              !.args = parsed.args, !.i = 1])
               /\ UNCHANGED pc
    /\ UNCHANGED <<files, processedStructs, projectInfoSet, walk, err, parse, instLog, entry, structDefinitions, apiFunctions, fnIdx, itemIdx, ret,
                   visited, written, sections>>

\* The call frame a nested call adds, or the exhaustion of the stack.
Call(frame, callee) ==
    IF Len(stack) >= MaxDepth
    THEN /\ pc' = "overflow"
         /\ UNCHANGED stack
    ELSE /\ stack' = Append(SetTop(frame), callee)
         /\ UNCHANGED pc

\* One iteration of the loop over typeArgs.
ColArg ==
    /\ pc = "collect"
    /\ Top.pc = "args"
    /\ Top.i <= Len(Top.args)
    /\ Call([Top EXCEPT !.i = @ + 1], CallFrame(Top.args[Top.i], Top.pkg, Top.aliases))
    /\ UNCHANGED <<files, processedStructs, projectInfoSet, walk, err, parse, instLog, entry, structDefinitions, apiFunctions, fnIdx, itemIdx, ret,
                   visited, structsToDocument, written, sections, lastRes>>

\* After the type arguments: the visited guard and the lookup of the definition.
ColVisit ==
    /\ pc = "collect"
    /\ Top.pc = "args"
    /\ Top.i > Len(Top.args)
    /\ IF Seen(Top.key, visited)
       THEN /\ Return(Pop)
            /\ UNCHANGED visited
       ELSE /\ visited' = visited \cup {Top.key}
            /\ IF Top.key \in DOMAIN structDefinitions
               THEN /\ stack' = SetTop([Top EXCEPT !.pc = "fields", !.i = 1])
                    /\ UNCHANGED pc
               ELSE Return(Pop)
    /\ UNCHANGED <<files, processedStructs, projectInfoSet, walk, err, parse, instLog, entry, structDefinitions, apiFunctions, fnIdx, itemIdx, ret,
                   structsToDocument, written, sections, lastRes>>

\* One iteration of the loop over structDef.Fields.
ColField ==
    /\ pc = "collect"
    /\ Top.pc = "fields"
    /\ Top.i <= Len(structDefinitions[Top.key].Fields)
    /\ Call([Top EXCEPT !.i = @ + 1],
            CallFrame(structDefinitions[Top.key].Fields[Top.i].Type,
                      Top.key.Package, <<>>))
    /\ UNCHANGED <<files, processedStructs, projectInfoSet, walk, err, parse, instLog, entry, structDefinitions, apiFunctions, fnIdx, itemIdx, ret,
                   visited, structsToDocument, written, sections, lastRes>>

ColReturn ==
    /\ pc = "collect"
    /\ Top.pc = "fields"
    /\ Top.i > Len(structDefinitions[Top.key].Fields)
    /\ Return(Pop)
    /\ UNCHANGED <<files, processedStructs, projectInfoSet, walk, err, parse, instLog, entry, structDefinitions, apiFunctions, fnIdx, itemIdx, ret,
                   visited, structsToDocument, written, sections, lastRes>>

(***************************************************************************)
(* The specification: one call of GenerateDocumentation or of              *)
(* collectStructsToDocument on a catalog and a list of API functions.      *)
(***************************************************************************)

InitGenerate ==
    /\ entry = "generate"
    /\ structDefinitions \in Catalogs
    /\ apiFunctions \in FunctionLists(GenFunctions(cmdA))

InitCollect ==
    /\ entry = "collect"
    /\ structDefinitions \in Catalogs
    /\ apiFunctions \in FunctionLists(ColFunctions(cmdA))

InitCommon ==
    /\ pc = "start"
    /\ fnIdx = 1
    /\ itemIdx = 1
    /\ ret = "none"
    /\ stack = <<>>
    /\ visited = {}
    /\ structsToDocument = {}
    /\ written = <<>>
    /\ sections = <<>>
    /\ lastRes = noRes
    /\ parse = noParse
    /\ instLog = <<>>
    /\ err = "none"
    /\ files = <<>>
    /\ processedStructs = {}
    /\ projectInfoSet = FALSE
    /\ walk = noWalk

Init == (InitGenerate \/ InitCollect) /\ InitCommon

Generate ==
    \/ GenStart
    \/ GenFunction
    \/ GenFinish
    \/ GenResult
    \/ GenResultsDone
    \/ GenAdditional
    \/ GenFunctionDone
    \/ PrintEnter
    \/ PrintField
    \/ PrintReturn

Collect ==
    \/ ColStart
    \/ ColSeed
    \/ ColNextFunction
    \/ ColFinish
    \/ ColEnter
    \/ ColArg
    \/ ColVisit
    \/ ColField
    \/ ColReturn

Next == Generate \/ Collect

Spec == Init /\ [][Next]_vars

\* Both functions run to completion once called: no step waits on anything.
FairSpec == Spec /\ WF_vars(Next)

(***************************************************************************)
(* utils.ParseGenericType as a function of its argument.  The spellings    *)
(* handed to it are built from a base name and a list of type arguments,   *)
(* joined by "," with or without a following space; the base and the       *)
(* arguments are kept beside the spelling.                                 *)
(***************************************************************************)

MaxArgs == 2

nPair == <<"P","a","i","r">>
tQualMP == <<"m",".","P">>
tOuterInner == <<"O","u","t","e","r","[","I","n","n","e","r","]">>
tMapKV == <<"m","a","p","[","K","]","V">>
tPairIJ == <<"P","a","i","r","[","I",","," ","J","]">>
tNested == <<"O","[","P","[","I",",","J","]",","," ","K","]">>

ParseBases == { nP, nPair, tQualMP }

ParseArgs == { nA, tString, tOuterInner, tSliceA, tMapKV, tPairIJ, tNested }

ParseSeparators == { <<",", " ">>, <<",">> }

\* Spellings without a type-argument list.
PlainSpellings == { nA, nPair, tQualMA, tString, tInt }

ArgLists == UNION { [1..n -> ParseArgs] : n \in 1..MaxArgs }

ParseInput(base, args, sep) ==
    [base |-> base, args |-> args,
     typ |-> base \o <<"[">> \o Join(args, sep) \o <<"]">>,
     called |-> FALSE, out |-> noParse.out]

PlainInput(typ) ==
    [base |-> typ, args |-> <<>>, typ |-> typ, called |-> FALSE, out |-> noParse.out]

InitParse ==
    /\ entry = "parse"
    /\ parse \in { ParseInput(b, a, sep) :
                     b \in ParseBases, a \in ArgLists, sep \in ParseSeparators }
                 \cup { PlainInput(t) : t \in PlainSpellings }
    /\ structDefinitions = <<>>
    /\ apiFunctions = <<>>
    /\ pc = "start"
    /\ fnIdx = 1
    /\ itemIdx = 1
    /\ ret = "none"
    /\ stack = <<>>
    /\ visited = {}
    /\ structsToDocument = {}
    /\ written = <<>>
    /\ sections = <<>>
    /\ lastRes = noRes
    /\ instLog = <<>>
    /\ err = "none"
    /\ files = <<>>
    /\ processedStructs = {}
    /\ projectInfoSet = FALSE
    /\ walk = noWalk

ParseCall ==
    /\ entry = "parse"
    /\ ~parse.called
    /\ parse' = [parse EXCEPT !.called = TRUE, !.out = ParseGenericType(parse.typ)]
    /\ UNCHANGED <<files, processedStructs, projectInfoSet, walk, err, instLog, entry, structDefinitions, apiFunctions, pc, fnIdx, itemIdx,
                   ret, stack, visited, structsToDocument, written, sections, lastRes>>

NextParse == ParseCall

SpecParse == InitParse /\ [][NextParse]_vars

(***************************************************************************)
(* Spellings whose square brackets do not balance: a spelling Base[a1..an] *)
(* with its closing bracket dropped, a bracket too many at either end of   *)
(* the argument list, or its opening bracket dropped.                      *)
(***************************************************************************)

DropClose(base, args, sep) == base \o <<"[">> \o Join(args, sep)

ExtraClose(base, args, sep) == base \o <<"[">> \o Join(args, sep) \o <<"]", "]">>

ExtraOpen(base, args, sep) == base \o <<"[", "[">> \o Join(args, sep) \o <<"]">>

DropOpen(base, args, sep) == base \o Join(args, sep) \o <<"]">>

MalformedSpellings ==
    UNION { { DropClose(b, a, sep), ExtraClose(b, a, sep), ExtraOpen(b, a, sep),
              DropOpen(b, a, sep) } :
            b \in ParseBases, a \in ArgLists, sep \in ParseSeparators }

InitMalformed ==
    /\ entry = "parse"
    /\ parse \in { PlainInput(t) : t \in MalformedSpellings }
    /\ structDefinitions = <<>>
    /\ apiFunctions = <<>>
    /\ pc = "start"
    /\ fnIdx = 1
    /\ itemIdx = 1
    /\ ret = "none"
    /\ stack = <<>>
    /\ visited = {}
    /\ structsToDocument = {}
    /\ written = <<>>
    /\ sections = <<>>
    /\ lastRes = noRes
    /\ instLog = <<>>
    /\ err = "none"
    /\ files = <<>>
    /\ processedStructs = {}
    /\ projectInfoSet = FALSE
    /\ walk = noWalk

SpecMalformed == InitMalformed /\ [][NextParse]_vars

(***************************************************************************)
(* Generic instantiation.  GenerateDocumentation builds the concrete name  *)
(* of an @Additional generic reference and looks it up, but leaves the     *)
(* creation of a missing concrete structure to "the parser logic", which   *)
(* the package does not contain.  The creation is modelled from the        *)
(* documented contract of the instantiator: non-generic passthrough, the   *)
(* key (package of the generic, Base[display names]), reuse of a key       *)
(* already registered, otherwise a new definition whose field types are    *)
(* ReplaceTypeParams of the generic's.                                     *)
(***************************************************************************)

MaxRequests == 3

nT == <<"T">>
nU == <<"U">>
nUser == <<"U","s","e","r">>
tSliceT == <<"[","]","T">>
tMapTU == <<"m","a","p","[","T","]","U">>
tPofXA == <<"P","[","x",".","A","]">>
tPofPofA == <<"P","[","P","[","A","]","]">>
tPairUserA == <<"P","a","i","r","[","U","s","e","r",","," ","A","]">>
tPairA == <<"P","a","i","r","[","A","]">>
tPofAA == <<"P","[","A",","," ","A","]">>
tQualHPofA == <<"h",".","P","[","A","]">>

TypeParam(name) == [Name |-> name]

GenericDefinition(name, typeParams, fieldTypes) ==
    [Name |-> name,
     Fields |-> [i \in 1..Len(fieldTypes) |-> StructField(fieldTypes[i])],
     TypeParams |-> [i \in 1..Len(typeParams) |-> TypeParam(typeParams[i])]]

hUser == StructKey(pkgH, nUser)
hPair == StructKey(pkgH, nPair)

\* Package h declares A, User, P[T] and Pair[T, U]; package m declares A.
DeclaredCatalog ==
    (hA :> StructDefinition(nA, <<tInt>>))
    @@ (mA :> StructDefinition(nA, <<>>))
    @@ (hUser :> StructDefinition(nUser, <<tString>>))
    @@ (hP :> GenericDefinition(nP, <<nT>>, <<tSliceT, tInt>>))
    @@ (hPair :> GenericDefinition(nPair, <<nT, nU>>, <<nT, nU, tMapTU>>))

\* The same, or with P[A] registered before the function is documented.
InstCatalogs ==
    { DeclaredCatalog,
      DeclaredCatalog @@ (hPofA :> StructDefinition(tPofA, <<tSliceA>>)) }

Requests == { tPofA, tPofXA, tPofPofA, tPairUserA, tPairA, tPofAA, tQualHPofA, nA }

RequestLists == UNION { [1..n -> Requests] : n \in 1..MaxRequests }

InstFunctions ==
    { APIFunction(cmdA, pkg, <<>>, <<>>, add) : pkg \in Packages, add \in RequestLists }

LogEntry(additional, generic, args, display, key, outcome, def) ==
    [additional |-> additional, generic |-> generic, args |-> args,
     display |-> display, key |-> key, outcome |-> outcome, def |-> def]

noDef == StructDefinition(<<>>, <<>>)

\* The definition built for generic under the name concreteType.
Synthesized(generic, concreteType, display) ==
    [Name |-> concreteType,
     Fields |-> [i \in 1..Len(generic.Fields) |->
                    [generic.Fields[i] EXCEPT
                        !.Type = ReplaceTypeParams(@, generic.TypeParams, display)]],
     TypeParams |-> <<>>]

\* instantiate(genericKey, args) for a function: the entry it leaves in the
\* log, whose def is registered under key when the outcome is "synthesized".
Instantiate(additional, genericKey, args, apiFunc, defs) ==
    LET generic == defs[genericKey]
        display == [i \in 1..Len(args) |-> ResolvedArg(args[i], apiFunc, defs)]
        concreteType == ConcreteTypeName(genericKey.Name, args, apiFunc, defs)
        key == StructKey(genericKey.Package, concreteType)
    IN IF genericKey \notin DOMAIN defs
       THEN LogEntry(additional, genericKey, args, display, noKey, "skipped", noDef)
       ELSE IF Len(generic.TypeParams) = 0
       THEN LogEntry(additional, genericKey, args, display, genericKey, "passthrough",
                     generic)
       ELSE IF key \in DOMAIN defs
       THEN LogEntry(additional, genericKey, args, display, key, "reused", defs[key])
       ELSE IF Len(generic.TypeParams) # Len(args)
       THEN LogEntry(additional, genericKey, args, display, noKey, "skipped", noDef)
       ELSE LogEntry(additional, genericKey, args, display, key, "synthesized",
                     Synthesized(generic, concreteType, display))

InitInst ==
    /\ entry = "instantiate"
    /\ structDefinitions \in InstCatalogs
    /\ apiFunctions \in { <<f>> : f \in InstFunctions }
    /\ InitCommon

InstStart ==
    /\ entry = "instantiate"
    /\ pc = "start"
    /\ pc' = "additional"
    /\ UNCHANGED <<files, processedStructs, projectInfoSet, walk, err, parse, instLog, entry, structDefinitions, apiFunctions, fnIdx, itemIdx,
                   ret, stack, visited, structsToDocument, written, sections, lastRes>>

\* One iteration of the loop over apiFunc.AdditionalStructs, with the missing
\* concrete structure created instead of reported.
InstAdditional ==
    /\ entry = "instantiate"
    /\ pc = "additional"
    /\ itemIdx <= Len(CurFunc.AdditionalStructs)
    /\ LET additional == CurFunc.AdditionalStructs[itemIdx]
           parsed == ParseGenericType(additional)
           r == resolvePackageAndType(parsed.base, CurFunc.PackageName,
                                      CurFunc.ImportAliases, structDefinitions)
           e == Instantiate(additional, StructKey(r.pkg, r.typeName), parsed.args,
                            CurFunc, structDefinitions)
       IN IF IsBasicType(parsed.base) \/ r.typeName = <<>>
          THEN UNCHANGED <<structDefinitions, instLog>>
          ELSE /\ instLog' = Append(instLog, e)
               /\ structDefinitions' =
                    IF e.outcome = "synthesized"
                    THEN structDefinitions @@ (e.key :> e.def)
                    ELSE structDefinitions
    /\ itemIdx' = itemIdx + 1
    /\ UNCHANGED <<files, processedStructs, projectInfoSet, walk, err, parse, entry, apiFunctions, pc, fnIdx, ret, stack, visited,
                   structsToDocument, written, sections, lastRes>>

InstFinish ==
    /\ entry = "instantiate"
    /\ pc = "additional"
    /\ itemIdx > Len(CurFunc.AdditionalStructs)
    /\ pc' = "done"
    /\ UNCHANGED <<files, processedStructs, projectInfoSet, walk, err, parse, instLog, entry, structDefinitions, apiFunctions, fnIdx, itemIdx,
                   ret, stack, visited, structsToDocument, written, sections, lastRes>>

NextInst ==
    \/ InstStart
    \/ InstAdditional
    \/ InstFinish

SpecInst == InitInst /\ [][NextInst]_vars

(***************************************************************************)
(* The parser package: ParseProject walks the source tree, registers the   *)
(* struct declarations of every file and parses the doc comment of every   *)
(* function.  Texts are sequences of characters, as before.                *)
(***************************************************************************)

\* strings.Fields(line): the maximal runs of non-space characters.
RECURSIVE FieldsFrom(_, _)
FieldsFrom(s, cur) ==
    IF s = <<>> THEN (IF cur = <<>> THEN <<>> ELSE <<cur>>)
    ELSE IF Head(s) = " "
         THEN (IF cur = <<>> THEN <<>> ELSE <<cur>>) \o FieldsFrom(Tail(s), <<>>)
         ELSE FieldsFrom(Tail(s), Append(cur, Head(s)))

Fields(s) == FieldsFrom(s, <<>>)

\* unicode.ToLower on the letters the inputs use.
UpperCase == <<"O","P","T","I","N","A","L">>
LowerCase == <<"o","p","t","i","n","a","l">>

ToLowerChar(c) ==
    IF \E i \in 1..Len(UpperCase) : UpperCase[i] = c
    THEN LowerCase[CHOOSE i \in 1..Len(UpperCase) : UpperCase[i] = c]
    ELSE c

\* strings.EqualFold(s, t).
EqualFold(s, t) ==
    /\ Len(s) = Len(t)
    /\ \A i \in 1..Len(s) : ToLowerChar(s[i]) = ToLowerChar(t[i])

\* strconv.Atoi succeeds: an optional sign and decimal digits.
Digits == {"0","1","2","3","4","5","6","7","8","9"}

IsNumber(s) ==
    LET d == IF s # <<>> /\ Head(s) \in {"+", "-"} THEN Tail(s) ELSE s
    IN d # <<>> /\ \A i \in 1..Len(d) : d[i] \in Digits

\* regexp `^[\*\[\]]+` replaced by "": the leading run of '*', '[' and ']'.
RECURSIVE StripDecorations(_)
StripDecorations(typeStr) ==
    IF typeStr # <<>> /\ Head(typeStr) \in {"*", "[", "]"}
    THEN StripDecorations(Tail(typeStr))
    ELSE typeStr

\* parser.resolveType returns (baseType, pkg).
resolveType(typeStr) ==
    LET stripped == StripDecorations(typeStr)
        parts == Split(stripped, ".")
    IN IF Contains(stripped, ".") /\ Len(parts) = 2
       THEN [baseType |-> parts[2], pkg |-> parts[1]]
       ELSE [baseType |-> stripped, pkg |-> <<>>]

parserBasicTypes ==
    { <<"s","t","r","i","n","g">>, <<"b","o","o","l">>, <<"i","n","t">>, <<"i","n","t","8">>, <<"i","n","t","1","6">>, <<"i","n","t","3","2">>,
      <<"i","n","t","6","4">>, <<"u","i","n","t">>, <<"u","i","n","t","8">>, <<"u","i","n","t","1","6">>, <<"u","i","n","t","3","2">>,
      <<"u","i","n","t","6","4">>, <<"f","l","o","a","t","3","2">>, <<"f","l","o","a","t","6","4">>, <<"b","y","t","e">>, <<"r","u","n","e">> }

isBasicType(typeName) == typeName \in parserBasicTypes

\* The StructKey a type spelling is looked up under: its own qualifier, or the
\* package of the file that spells it.
lookupKey(typeStr, currentPackage) ==
    LET r == resolveType(typeStr)
    IN StructKey(IF r.pkg # <<>> THEN r.pkg ELSE currentPackage, r.baseType)

\* strconv.Atoi on a text IsNumber accepts.
RECURSIVE DigitsValue(_, _)
DigitsValue(d, acc) ==
    IF d = <<>> THEN acc
    ELSE DigitsValue(Tail(d),
                     acc * 10 + (CHOOSE n \in 0..9 :
                                    <<"0","1","2","3","4","5","6","7","8","9">>[n + 1] = Head(d)))

Atoi(s) ==
    IF Head(s) = "-" THEN 0 - DigitsValue(Tail(s), 0)
    ELSE IF Head(s) = "+" THEN DigitsValue(Tail(s), 0)
    ELSE DigitsValue(s, 0)

\* strings.TrimPrefix(s, p).
TrimPrefix(s, p) == IF HasPrefix(s, p) THEN SubSeq(s, Len(p) + 1, Len(s)) ELSE s

\* parts[n:] of a Go slice, n counted from 0.
SliceFrom(parts, n) == SubSeq(parts, n + 1, Len(parts))

tagCommand == <<"@","C","o","m","m","a","n","d">>
tagDescription == <<"@","D","e","s","c","r","i","p","t","i","o","n">>
tagParameter == <<"@","P","a","r","a","m","e","t","e","r">>
tagResult == <<"@","R","e","s","u","l","t">>
tagError == <<"@","E","r","r","o","r">>
kwOptional == <<"o","p","t","i","o","n","a","l">>

APIParameter(name, typ, description, required) ==
    [Name |-> name, Type |-> typ, Description |-> description, Required |-> required]

APIReturn(typ, description) ==
    [Name |-> <<"r","e","s","u","l","t">>, Type |-> typ, Description |-> description, Required |-> TRUE]

APIError(code, description) == [Code |-> code, Description |-> description]

\* The APIFunction parseFunction starts from.
newAPIFunction(currentPackage, importAliases) ==
    [Command |-> <<>>, Description |-> <<>>, Parameters |-> <<>>, Results |-> <<>>,
     Errors |-> <<>>, ImportAliases |-> importAliases, PackageName |-> currentPackage,
     AdditionalStructs |-> <<>>]

\* One turn of the scanner loop of parseFunction.  st holds apiFunc, the @Result
\* lines collected so far and the error returned, "nil" while the loop runs.
scanLine(st, text) ==
    LET line == TrimSpace(text)
        parts == Fields(line)
    IN IF st.err # "nil" \/ ~HasPrefix(line, <<"@">>) \/ Len(parts) < 1 THEN st
       ELSE IF parts[1] = tagCommand
       THEN IF Len(parts) < 2
            THEN [st EXCEPT !.err = "missing command name in @Command annotation"]
            ELSE [st EXCEPT !.apiFunc.Command = parts[2]]
       ELSE IF parts[1] = tagDescription
       THEN [st EXCEPT !.apiFunc.Description = TrimSpace(TrimPrefix(line, tagDescription))]
       ELSE IF parts[1] = tagParameter
       THEN IF Len(parts) < 3
            THEN [st EXCEPT !.err = "invalid @Parameter annotation"]
            ELSE LET rest == SliceFrom(parts, 3)
                     isOptional == Len(rest) > 0 /\ EqualFold(rest[1], kwOptional)
                     paramDescParts == IF isOptional THEN SliceFrom(rest, 1) ELSE rest
                 IN [st EXCEPT !.apiFunc.Parameters =
                        Append(@, APIParameter(parts[2], parts[3],
                                               Join(paramDescParts, <<" ">>),
                                               ~isOptional))]
       ELSE IF parts[1] = tagResult
       THEN [st EXCEPT !.resultAnnotations = Append(@, line)]
       ELSE IF parts[1] = tagError
       THEN IF Len(parts) < 3
            THEN [st EXCEPT !.err = "invalid @Error annotation"]
            ELSE IF ~IsNumber(parts[2])
            THEN [st EXCEPT !.err = "ErrInvalidErrorCode"]
            ELSE [st EXCEPT !.apiFunc.Errors =
                     Append(@, APIError(Atoi(parts[2]), Join(SliceFrom(parts, 2), <<" ">>)))]
       ELSE st

RECURSIVE scanLines(_, _)
scanLines(st, doc) ==
    IF doc = <<>> THEN st ELSE scanLines(scanLine(st, Head(doc)), Tail(doc))

\* A variant that never finds too many @Result annotations.
TooManyResultsNever(resultAnnotations) == FALSE

\* The test parseFunction makes on the @Result annotations it gathered.
TooManyResults(resultAnnotations) == Len(resultAnnotations) > 1

\* parseFunction up to the lookup of the result type: the annotations scanned,
\* the single @Result processed.  lookup is the result type whose structure is
\* searched for next, <<>> when there is none.
parseAnnotations(doc, currentPackage, importAliases) ==
    LET st == scanLines([apiFunc |-> newAPIFunction(currentPackage, importAliases),
                         resultAnnotations |-> <<>>, err |-> "nil"], doc)
        parts == Fields(TrimSpace(st.resultAnnotations[1]))
        baseType == resolveType(parts[2]).baseType
    IN IF st.err # "nil" THEN [apiFunc |-> st.apiFunc, err |-> st.err, lookup |-> <<>>]
       ELSE IF TooManyResults(st.resultAnnotations)
       THEN [apiFunc |-> st.apiFunc, err |-> "ErrMultipleResults", lookup |-> <<>>]
       ELSE IF Len(st.resultAnnotations) = 0
       THEN [apiFunc |-> st.apiFunc, err |-> "nil", lookup |-> <<>>]
       ELSE IF Len(parts) < 3
       THEN [apiFunc |-> st.apiFunc, err |-> "ErrMalformedResult", lookup |-> <<>>]
       ELSE [apiFunc |-> [st.apiFunc EXCEPT !.Results =
                            Append(@, APIReturn(parts[2], Join(SliceFrom(parts, 2), <<" ">>)))],
             err |-> "nil",
             lookup |-> IF baseType # <<>> /\ ~isBasicType(baseType) THEN parts[2]
                        ELSE <<>>]

\* A variant that tests the description before the command.
validateAnnotationsDescriptionFirst(apiFunc) ==
    IF apiFunc.Description = <<>> THEN "ErrMissingDescription"
    ELSE IF apiFunc.Command = <<>> THEN "ErrMissingCommand"
    ELSE "nil"

\* The end of parseFunction: the required annotations.
validateAnnotations(apiFunc) ==
    IF apiFunc.Command = <<>> THEN "ErrMissingCommand"
    ELSE IF apiFunc.Description = <<>> THEN "ErrMissingDescription"
    ELSE "nil"

(***************************************************************************)
(* The source tree, in the order filepath.Walk visits it.  A file is       *)
(* described by what the walk and go/parser make of it: the directory it   *)
(* lies in, whether Walk hands it over with an error, whether it is a      *)
(* non-test .go file, whether parser.ParseFile succeeds, its package       *)
(* clause, its imports, whether its doc comment (or a function's) carries  *)
(* the global tags, and its struct and function declarations.              *)
(***************************************************************************)

MaxFiles == 2

StructDecl(name, fieldTypes) == [Name |-> name, Fields |-> fieldTypes]

FuncDecl(doc, tags) == [Doc |-> doc, Tags |-> tags]

ImportSpec(name, path) == [Name |-> name, Path |-> path]

SourceFile(dir, walkErr, goFile, parses, pkg, tags, structs, funcs) ==
    [Dir |-> dir, WalkErr |-> walkErr, GoFile |-> goFile, Parses |-> parses,
     Package |-> pkg,
     Imports |-> << ImportSpec(<<"x">>, <<"\"","r","/","m","\"">>),
                    ImportSpec(<<>>, <<"\"","r","/","h","\"">>) >>,
     Tags |-> tags, Structs |-> structs, Funcs |-> funcs]

\* Directories ParseProject's walk does not enter.
SkippedDirs == { "vendor", ".hidden" }

lineCommand == <<"@","C","o","m","m","a","n","d"," ","a">>
lineDescription == <<"@","D","e","s","c","r","i","p","t","i","o","n"," ","d">>
lineResultA == <<"@","R","e","s","u","l","t"," ","A"," ","r">>
lineResultB == <<" "," ","@","R","e","s","u","l","t"," ","[","]","B"," ","r"," ","r">>
lineResultInt == <<"@","R","e","s","u","l","t"," ","i","n","t"," ","r">>
lineResultShort == <<"@","R","e","s","u","l","t"," ","A">>
lineParam == <<"@","P","a","r","a","m","e","t","e","r"," ","p"," ","A"," ","t","h","e"," ","o","p","t","i","o","n","a","l"," ","d">>
lineParamOptional == <<"@","P","a","r","a","m","e","t","e","r"," ","p"," ","*","A"," ","o","p","t","i","o","n","a","l"," ","d"," ","d">>
lineParamOPTIONAL == <<"@","P","a","r","a","m","e","t","e","r"," ","p"," ","i","n","t"," ","O","P","T","I","O","N","A","L">>
lineParamFlag == <<"@","P","a","r","a","m","e","t","e","r"," ","t","z"," ","s","t","r","i","n","g"," ","d","."," ","[","o","p","t","i","o","n","a","l","]">>
lineParamShort == <<"@","P","a","r","a","m","e","t","e","r"," ","p">>
lineError == <<"@","E","r","r","o","r"," ","1","2"," ","d">>
lineErrorCode == <<"@","E","r","r","o","r"," ","x"," ","d">>
lineText == <<"a"," ","d",".">>

\* Doc comments of accepted functions.
docResultA == << lineText, lineCommand, lineDescription, lineResultA >>
docParams == << lineCommand, lineDescription, lineParam, lineParamOptional,
                lineParamOPTIONAL, lineError >>
docParamFlag == << lineCommand, lineDescription, lineParamFlag, lineResultInt >>

\* Doc comments of rejected functions.
docTwoResults == << lineCommand, lineDescription, lineResultA, lineResultB >>
docTwoResultsBadParam == << lineCommand, lineDescription, lineResultA, lineParamShort,
                            lineResultB >>
docTwoResultsBadCode == << lineCommand, lineResultA, lineResultB, lineErrorCode >>
docShortResult == << lineCommand, lineDescription, lineResultShort >>
docNoCommand == << lineDescription, lineResultB >>
docNoDescription == << lineCommand, lineResultB >>
docNoAnnotations == << lineText >>
docNoCommandTwoResults == << lineDescription, lineResultA, lineResultB >>
docNoCommandBadParam == << lineText, lineParamShort >>

declAofB == StructDecl(nA, <<nB>>)
declBofA == StructDecl(nB, <<tPtrA>>)
declB == StructDecl(nB, <<>>)
declAofA == StructDecl(nA, <<tPtrA, tInt>>)
declBofInt == StructDecl(nB, <<tInt>>)
declBofBool == StructDecl(nB, <<tBool>>)
declAofSliceB == StructDecl(nA, <<tSliceB, tString>>)

fileA == SourceFile("src", FALSE, TRUE, TRUE, pkgH, TRUE, <<declAofSliceB>>, <<>>)
fileB == SourceFile("src", FALSE, TRUE, TRUE, pkgH, TRUE, <<declB>>, <<>>)
fileB2 == SourceFile("src", FALSE, TRUE, TRUE, pkgH, FALSE, <<declBofInt, declAofB>>, <<>>)
fileCycle == SourceFile("src", FALSE, TRUE, TRUE, pkgH, TRUE, <<declAofB, declBofA>>, <<>>)
fileSelf == SourceFile("src", FALSE, TRUE, TRUE, pkgH, TRUE, <<declAofA>>, <<>>)
fileBroken == SourceFile("src", FALSE, TRUE, FALSE, pkgH, TRUE, <<declBofBool>>, <<>>)
fileUnreadable == SourceFile("src", TRUE, TRUE, TRUE, pkgH, TRUE, <<declB>>, <<>>)
fileTest == SourceFile("src", FALSE, FALSE, TRUE, pkgH, TRUE, <<declBofBool>>, <<>>)
fileVendor == SourceFile("vendor", FALSE, TRUE, TRUE, pkgH, TRUE, <<declBofBool>>, <<>>)
fileM == SourceFile("src", FALSE, TRUE, TRUE, pkgM, TRUE, <<declB>>, <<>>)
fileAccepted ==
    SourceFile("src", FALSE, TRUE, TRUE, pkgH, FALSE, <<>>,
               << FuncDecl(docResultA, FALSE), FuncDecl(docParams, TRUE),
                  FuncDecl(docParamFlag, FALSE) >>)
fileRejected ==
    SourceFile("src", FALSE, TRUE, TRUE, pkgH, TRUE, <<>>,
               << FuncDecl(docTwoResults, FALSE), FuncDecl(docTwoResultsBadParam, FALSE),
                  FuncDecl(docTwoResultsBadCode, FALSE), FuncDecl(docShortResult, FALSE),
                  FuncDecl(docNoAnnotations, FALSE) >>)
fileSkipped ==
    SourceFile("src", FALSE, TRUE, TRUE, pkgH, TRUE, <<>>,
               << FuncDecl(docNoCommand, FALSE), FuncDecl(docNoDescription, FALSE),
                  FuncDecl(docNoCommandTwoResults, FALSE),
                  FuncDecl(docNoCommandBadParam, FALSE) >>)

SourceFiles ==
    { fileA, fileB, fileB2, fileCycle, fileSelf, fileBroken, fileUnreadable, fileTest, fileVendor,
      fileM, fileAccepted, fileRejected, fileSkipped }

SourceTrees == UNION { [1..n -> SourceFiles] : n \in 1..MaxFiles }

\* strings.Trim(s, "\"").
RECURSIVE TrimQuotes(_)
TrimQuotes(s) ==
    IF s # <<>> /\ Head(s) = "\"" THEN TrimQuotes(Tail(s))
    ELSE IF s # <<>> /\ s[Len(s)] = "\"" THEN TrimQuotes(SubSeq(s, 1, Len(s) - 1))
    ELSE s

\* The local name of an import: its explicit name, else the last element of
\* its path.
importAlias(imp) ==
    IF imp.Name # <<>> THEN imp.Name
    ELSE LET parts == Split(TrimQuotes(imp.Path), "/") IN parts[Len(parts)]

\* parser.extractImportAliases: importAliases[alias] = alias.
extractImportAliases(imports) ==
    [a \in { importAlias(imports[i]) : i \in 1..Len(imports) } |-> a]

\* A plausible slip: a key already in the map keeps its first definition.
StoredIfAbsent(defs, key, def) ==
    [k \in DOMAIN defs \cup {key} |-> IF k \in DOMAIN defs THEN defs[k] ELSE def]

\* structDefinitions[key] = def.
Stored(defs, key, def) ==
    [k \in DOMAIN defs \cup {key} |-> IF k = key THEN def ELSE defs[k]]

CurFile == files[walk.file]

\* The walk of findAndParseStruct from file i on: the first declaration of a
\* struct called key.Name in a parsable non-test .go file of package
\* key.Package, whatever its directory; an error handed over by Walk ends the
\* search.
RECURSIVE findDecl(_, _, _)
findDecl(tree, key, i) ==
    IF i > Len(tree) \/ tree[i].WalkErr
    THEN [found |-> FALSE, file |-> 0, decl |-> 0]
    ELSE LET f == tree[i]
             hits == { j \in 1..Len(f.Structs) : f.Structs[j].Name = key.Name }
         IN IF \/ ~f.GoFile
               \/ ~f.Parses
               \/ (key.Package # <<>> /\ f.Package # key.Package)
               \/ hits = {}
            THEN findDecl(tree, key, i + 1)
            ELSE [found |-> TRUE, file |-> i,
                  decl |-> CHOOSE j \in hits : \A k \in hits : j <= k]

\* A variant without the guard on structDefinitions and processedStructs.
needsLookupAlways(typeStr, currentPackage) ==
    LET baseType == resolveType(typeStr).baseType
    IN baseType # <<>> /\ ~isBasicType(baseType)

\* A field or result type whose structure is searched for: it names no basic
\* type and its key is neither in structDefinitions nor in processedStructs.
needsLookup(typeStr, currentPackage) ==
    LET baseType == resolveType(typeStr).baseType
        key == lookupKey(typeStr, currentPackage)
    IN /\ baseType # <<>>
       /\ ~isBasicType(baseType)
       /\ key \notin DOMAIN structDefinitions
       /\ key \notin processedStructs

\* The activation record of findAndParseStruct(key): file is 0 until the walk
\* has found the declaration.
FindFrame(key) ==
    [key |-> key, file |-> 0, decl |-> 0, field |-> 0,
     structDef |-> StructDefinition(<<>>, <<>>)]

InitProject ==
    /\ entry = "project"
    /\ files \in SourceTrees
    /\ structDefinitions = <<>>
    /\ apiFunctions = <<>>
    /\ processedStructs = {}
    /\ projectInfoSet = FALSE
    /\ walk = noWalk
    /\ pc = "walk"
    /\ fnIdx = 1
    /\ itemIdx = 1
    /\ ret = "none"
    /\ stack = <<>>
    /\ visited = {}
    /\ structsToDocument = {}
    /\ written = <<>>
    /\ sections = <<>>
    /\ lastRes = noRes
    /\ parse = noParse
    /\ instLog = <<>>
    /\ err = "none"

\* What ParseProject and the functions it calls never touch.
otherVars ==
    <<entry, fnIdx, itemIdx, visited, structsToDocument, written, sections, lastRes,
      parse, instLog>>

\* One call of the function filepath.Walk is given: the file is skipped,
\* ends the walk with the error Walk handed over, or is parsed.
ProjectFile ==
    /\ entry = "project"
    /\ pc = "walk"
    /\ walk.file <= Len(files)
    /\ IF CurFile.Dir \in SkippedDirs
          \/ (~CurFile.WalkErr /\ (~CurFile.GoFile \/ ~CurFile.Parses))
       THEN /\ walk' = [walk EXCEPT !.file = @ + 1]
            /\ UNCHANGED <<pc, err, structDefinitions, apiFunctions, projectInfoSet>>
       ELSE IF CurFile.WalkErr
       THEN /\ pc' = "done"
            /\ err' = "walk"
            /\ structDefinitions' = <<>>
            /\ apiFunctions' = <<>>
            /\ UNCHANGED <<walk, projectInfoSet>>
       ELSE /\ pc' = "structs"
            /\ walk' = [walk EXCEPT !.decl = 1]
            /\ projectInfoSet' = (projectInfoSet \/ CurFile.Tags)
            /\ UNCHANGED <<err, structDefinitions, apiFunctions>>
    /\ UNCHANGED <<files, processedStructs, ret, stack>>
    /\ UNCHANGED otherVars

\* A struct declaration of the file: its StructDefinition is started.
ProjectStruct ==
    /\ entry = "project"
    /\ pc = "structs"
    /\ walk.decl <= Len(CurFile.Structs)
    /\ walk' = [walk EXCEPT !.structDef = StructDefinition(CurFile.Structs[walk.decl].Name,
                                                           <<>>),
                            !.field = 1]
    /\ pc' = "structField"
    /\ UNCHANGED <<files, processedStructs, projectInfoSet, structDefinitions, apiFunctions,
                   err, ret, stack>>
    /\ UNCHANGED otherVars

\* One field of the declaration: appended, and its structure searched for when
\* it is not known yet.
ProjectField ==
    /\ entry = "project"
    /\ pc = "structField"
    /\ walk.field <= Len(CurFile.Structs[walk.decl].Fields)
    /\ LET fieldType == CurFile.Structs[walk.decl].Fields[walk.field]
       IN /\ walk' = [walk EXCEPT !.structDef.Fields = Append(@, StructField(fieldType)),
                                  !.field = @ + 1]
          /\ IF needsLookup(fieldType, CurFile.Package)
             THEN /\ stack' = << FindFrame(lookupKey(fieldType, CurFile.Package)) >>
                  /\ ret' = "structField"
                  /\ pc' = "find"
             ELSE UNCHANGED <<stack, ret, pc>>
    /\ UNCHANGED <<files, processedStructs, projectInfoSet, structDefinitions, apiFunctions,
                   err>>
    /\ UNCHANGED otherVars

\* The declaration is registered under (currentPackage, name).
ProjectStructDone ==
    /\ entry = "project"
    /\ pc = "structField"
    /\ walk.field > Len(CurFile.Structs[walk.decl].Fields)
    /\ structDefinitions' = Stored(structDefinitions,
                                   StructKey(CurFile.Package, walk.structDef.Name),
                                   walk.structDef)
    /\ walk' = [walk EXCEPT !.decl = @ + 1]
    /\ pc' = "structs"
    /\ UNCHANGED <<files, processedStructs, projectInfoSet, apiFunctions, err, ret, stack>>
    /\ UNCHANGED otherVars

\* After the struct declarations, the functions of the file.
ProjectStructsDone ==
    /\ entry = "project"
    /\ pc = "structs"
    /\ walk.decl > Len(CurFile.Structs)
    /\ walk' = [walk EXCEPT !.decl = 1]
    /\ pc' = "funcs"
    /\ UNCHANGED <<files, processedStructs, projectInfoSet, structDefinitions, apiFunctions,
                   err, ret, stack>>
    /\ UNCHANGED otherVars

\* parseFunction up to the lookup of the result type.
ProjectFunction ==
    /\ entry = "project"
    /\ pc = "funcs"
    /\ walk.decl <= Len(CurFile.Funcs)
    /\ LET pending == parseAnnotations(CurFile.Funcs[walk.decl].Doc, CurFile.Package,
                                       extractImportAliases(CurFile.Imports))
       IN /\ walk' = [walk EXCEPT !.pending = pending,
                                  !.before = [structDefinitions |-> structDefinitions,
                                              processedStructs |-> processedStructs]]
          /\ IF pending.lookup # <<>> /\ needsLookup(pending.lookup, CurFile.Package)
             THEN /\ stack' = << FindFrame(lookupKey(pending.lookup, CurFile.Package)) >>
                  /\ ret' = "function"
                  /\ pc' = "find"
             ELSE /\ pc' = "function"
                  /\ UNCHANGED <<stack, ret>>
    /\ UNCHANGED <<files, processedStructs, projectInfoSet, structDefinitions, apiFunctions,
                   err>>
    /\ UNCHANGED otherVars

\* The end of parseFunction and what ParseProject does with its result: the
\* function is appended when no error came back, and its comment is tried for
\* the global tags.
ProjectFunctionDone ==
    /\ entry = "project"
    /\ pc = "function"
    /\ LET returned == IF walk.pending.err # "nil" THEN walk.pending.err
                       ELSE validateAnnotations(walk.pending.apiFunc)
       IN /\ apiFunctions' = IF returned = "nil"
                             THEN Append(apiFunctions, walk.pending.apiFunc)
                             ELSE apiFunctions
          /\ walk' = [walk EXCEPT !.decl = @ + 1,
                                  !.returned = [doc |-> CurFile.Funcs[walk.decl].Doc,
                                                err |-> returned,
                                                included |-> returned = "nil",
                                                logged |-> returned \notin
                                                    {"nil", "ErrMissingCommand"}]]
    /\ projectInfoSet' = (projectInfoSet \/ CurFile.Funcs[walk.decl].Tags)
    /\ pc' = "funcs"
    /\ UNCHANGED <<files, processedStructs, structDefinitions, err, ret, stack>>
    /\ UNCHANGED otherVars

\* The file is done: Walk goes on.
ProjectFileDone ==
    /\ entry = "project"
    /\ pc = "funcs"
    /\ walk.decl > Len(CurFile.Funcs)
    /\ walk' = [walk EXCEPT !.file = @ + 1]
    /\ pc' = "walk"
    /\ UNCHANGED <<files, processedStructs, projectInfoSet, structDefinitions, apiFunctions,
                   err, ret, stack>>
    /\ UNCHANGED otherVars

\* Walk has returned nil: ParseProject returns, with an error when no comment
\* carried the global tags.
ProjectReturn ==
    /\ entry = "project"
    /\ pc = "walk"
    /\ walk.file > Len(files)
    /\ pc' = "done"
    /\ IF projectInfoSet
       THEN /\ err' = "nil"
            /\ UNCHANGED <<structDefinitions, apiFunctions>>
       ELSE /\ err' = "no global tags"
            /\ structDefinitions' = <<>>
            /\ apiFunctions' = <<>>
    /\ UNCHANGED <<files, processedStructs, projectInfoSet, walk, ret, stack>>
    /\ UNCHANGED otherVars

\* findAndParseStruct returns to ParseProject or parseFunction: the loop the
\* call was made from goes on.
ReturnToWalk == pc' = ret

\* The walk of findAndParseStruct: no declaration found, and "struct not found"
\* returned, or the declaration found, marked as processed and registered
\* without its fields.
FindEnter ==
    /\ entry = "project"
    /\ pc = "find"
    /\ Top.file = 0
    /\ LET d == findDecl(files, Top.key, 1)
           structDef == StructDefinition(files[d.file].Structs[d.decl].Name, <<>>)
       IN IF ~d.found
          THEN /\ stack' = Pop
               /\ IF Len(stack) = 1 THEN ReturnToWalk ELSE UNCHANGED pc
               /\ UNCHANGED <<processedStructs, structDefinitions>>
          ELSE /\ processedStructs' = processedStructs \cup {Top.key}
               /\ structDefinitions' = Stored(structDefinitions, Top.key, structDef)
               /\ stack' = SetTop([Top EXCEPT !.file = d.file, !.decl = d.decl,
                                              !.field = 1, !.structDef = structDef])
               /\ UNCHANGED pc
    /\ UNCHANGED <<files, projectInfoSet, walk, apiFunctions, err, ret>>
    /\ UNCHANGED otherVars

\* One field of the declaration found: appended, and its structure searched
\* for by a nested call when it is not known yet.
FindField ==
    /\ entry = "project"
    /\ pc = "find"
    /\ Top.file > 0
    /\ Top.field <= Len(files[Top.file].Structs[Top.decl].Fields)
    /\ LET fieldType == files[Top.file].Structs[Top.decl].Fields[Top.field]
           currentPackage == files[Top.file].Package
           next == SetTop([Top EXCEPT !.structDef.Fields = Append(@, StructField(fieldType)),
                                      !.field = @ + 1])
       IN IF ~needsLookup(fieldType, currentPackage)
          THEN /\ stack' = next
               /\ UNCHANGED pc
          ELSE IF Len(stack) >= MaxDepth
          THEN /\ pc' = "overflow"
               /\ UNCHANGED stack
          ELSE /\ stack' = Append(next, FindFrame(lookupKey(fieldType, currentPackage)))
               /\ UNCHANGED pc
    /\ UNCHANGED <<files, processedStructs, projectInfoSet, walk, structDefinitions,
                   apiFunctions, err, ret>>
    /\ UNCHANGED otherVars

\* The declaration is parsed: the caller registers the definition returned, and
\* ParseProject and parseFunction mark its key as processed.
FindReturn ==
    /\ entry = "project"
    /\ pc = "find"
    /\ Top.file > 0
    /\ Top.field > Len(files[Top.file].Structs[Top.decl].Fields)
    /\ structDefinitions' = Stored(structDefinitions, Top.key, Top.structDef)
    /\ stack' = Pop
    /\ IF Len(stack) = 1
       THEN /\ processedStructs' = processedStructs \cup {Top.key}
            /\ ReturnToWalk
       ELSE UNCHANGED <<processedStructs, pc>>
    /\ UNCHANGED <<files, projectInfoSet, walk, apiFunctions, err, ret>>
    /\ UNCHANGED otherVars

NextProject ==
    \/ ProjectFile
    \/ ProjectStruct
    \/ ProjectField
    \/ ProjectStructDone
    \/ ProjectStructsDone
    \/ ProjectFunction
    \/ ProjectFunctionDone
    \/ ProjectFileDone
    \/ ProjectReturn
    \/ FindEnter
    \/ FindField
    \/ FindReturn

SpecProject == InitProject /\ [][NextProject]_vars

\* ProjectFunction is enabled exactly in these states.
FunctionDue == entry = "project" /\ pc = "funcs" /\ walk.decl <= Len(CurFile.Funcs)

\* ParseProject run to its end: the goroutine is not stopped in the middle.
\* Weak fairness of every step; for ProjectFunction it is written with the
\* enabling condition spelled out.
FairSpecProject ==
    /\ SpecProject
    /\ WF_vars(ProjectFile \/ ProjectStruct \/ ProjectField \/ ProjectStructDone
               \/ ProjectStructsDone \/ ProjectFunctionDone \/ ProjectFileDone
               \/ ProjectReturn \/ FindEnter \/ FindField \/ FindReturn)
    /\ ([]<>(~FunctionDue) \/ []<><<ProjectFunction>>_vars)

(***************************************************************************)
(* Properties.                                                             *)
(***************************************************************************)

FieldTypes(defs, k) == { defs[k].Fields[i].Type : i \in 1..Len(defs[k].Fields) }

\* A names B in a field and B names A, or A names itself.
CyclicCatalog(defs) ==
    /\ hA \in DOMAIN defs
    /\ \/ nA \in FieldTypes(defs, hA)
       \/ /\ hB \in DOMAIN defs
          /\ nB \in FieldTypes(defs, hA)
          /\ nA \in FieldTypes(defs, hB)

\* Some function of package h seeds the collection with A.
SeedsA ==
    \E i \in 1..Len(apiFunctions) :
        /\ apiFunctions[i].PackageName = pkgH
        /\ \E j \in 1..Len(Seeds(apiFunctions[i])) : Seeds(apiFunctions[i])[j] = nA

CycleCollected ==
    (CyclicCatalog(structDefinitions) /\ SeedsA) =>
        /\ hA \in structsToDocument
        /\ (nB \in FieldTypes(structDefinitions, hA)) => hB \in structsToDocument
        /\ Cardinality({ k \in structsToDocument : k.Name = nA /\ k.Package = pkgH }) = 1

\* C1: every call of collectStructsToDocument returns, cyclic catalogs included,
\* and on a catalog where A and B name each other (or A names itself) the result
\* holds one entry for A and one for B.
C1_CollectTerminates ==
    (entry = "collect") ~> (pc = "done" /\ CycleCollected)

C1_Witness ==
    /\ entry = "collect"
    /\ pc = "done"
    /\ CyclicCatalog(structDefinitions)
    /\ nB \in FieldTypes(structDefinitions, hA)
    /\ SeedsA
    /\ {hA, hB} \subseteq structsToDocument

NoDuplicates(seq) == \A a, b \in 1..Len(seq) : a # b => seq[a] # seq[b]

\* C2: while one API function is documented, no structure key has its table
\* written twice.
C2_TablesWrittenOnce ==
    entry = "generate" => NoDuplicates(written)

\* A reference with a package qualifier and no type arguments.
Qualified(typ) ==
    /\ Contains(typ, ".")
    /\ Len(Split(typ, ".")) = 2
    /\ Len(ParseGenericType(typ).args) = 0

\* The key a qualified reference names: the alias target when the qualifier is
\* in the alias table, the qualifier itself otherwise.
QualifiedTarget(typ, aliases) ==
    LET parts == Split(typ, ".")
    IN StructKey(IF parts[1] \in DOMAIN aliases THEN aliases[parts[1]] ELSE parts[1],
                 parts[2])

\* C4: a qualified reference resolves to (alias target or qualifier, name),
\* whatever the context package.
C4_QualifierPrecedence ==
    (lastRes.site # "none" /\ Qualified(lastRes.typ)) =>
        LET target == QualifiedTarget(lastRes.typ, lastRes.aliases)
        IN /\ lastRes.found => lastRes.key = target
           /\ target \in DOMAIN structDefinitions => lastRes.found

\* An unqualified reference to a name that is no basic type and carries no
\* brackets.
Unqualified(typ) ==
    /\ typ # <<>>
    /\ ~Contains(typ, ".")
    /\ ~Contains(typ, "[")
    /\ ~IsBasicType(typ)

\* C5: an unqualified reference declared in the context package resolves to the
\* context package's structure.
C5_ContextPackageFirst ==
    (/\ lastRes.site # "none"
     /\ Unqualified(lastRes.typ)
     /\ StructKey(lastRes.ctx, lastRes.typ) \in DOMAIN structDefinitions) =>
        /\ lastRes.found
        /\ lastRes.key = StructKey(lastRes.ctx, lastRes.typ)

BasicSpellings == { tInt, tString, tBool, tBytes }

\* C7: int, string, bool and []byte never resolve to a structure: no key enters
\* the graph for them and no table is written for them.
C7_BasicTypesAreNoStructures ==
    /\ lastRes.typ \in BasicSpellings => (~lastRes.found /\ lastRes.key = noKey)
    /\ \A k \in structsToDocument : k.Name \notin BasicSpellings
    /\ \A i \in 1..Len(written) : written[i].Name \notin BasicSpellings

C7_Witness ==
    /\ lastRes.site \in {"result", "collect", "field", "additional"}
    /\ lastRes.typ = tInt
    /\ lastRes.ctx = pkgH
    /\ hInt \in DOMAIN structDefinitions
    /\ ~lastRes.found

\* C9: the key a resolution chooses does not depend on the iteration order of
\* the catalog map: the scan has at most one key to stop at.
C9_ResolutionDeterministic ==
    Cardinality(lastRes.candidates) <= 1

\* C10: an unqualified reference that the context package does not declare
\* resolves to nothing, whatever other packages declare.
C10_NoFallbackToOtherPackages ==
    (/\ lastRes.site # "none"
     /\ Unqualified(lastRes.typ)
     /\ StructKey(lastRes.ctx, lastRes.typ) \notin DOMAIN structDefinitions) =>
        ~lastRes.found

\* C8: ParseGenericType splits the argument list only at commas of bracket
\* depth 0: a spelling Base[a1, ..., an] with non-empty, bracket-balanced
\* arguments gives back Base and exactly a1..an in order, and a spelling without
\* brackets gives back itself and no arguments.
C8_SplitsAtDepthZero ==
    parse.called => /\ parse.out.base = parse.base
                    /\ parse.out.args = parse.args

C8_Witness ==
    /\ parse.called
    /\ parse.base = nPair
    /\ parse.args = <<tOuterInner, tString>>
    /\ parse.out.args = <<tOuterInner, tString>>

RECURSIVE Substituted(_, _, _)
Substituted(typ, typeParams, concreteTypes) ==
    IF typ = <<>> THEN <<>>
    ELSE IF \E i \in 1..Len(typeParams) : HasPrefix(typ, typeParams[i].Name)
    THEN LET i == CHOOSE n \in 1..Len(typeParams) : HasPrefix(typ, typeParams[n].Name)
         IN concreteTypes[i]
            \o Substituted(SubSeq(typ, Len(typeParams[i].Name) + 1, Len(typ)),
                           typeParams, concreteTypes)
    ELSE <<Head(typ)>> \o Substituted(Tail(typ), typeParams, concreteTypes)

\* C6: a synthesized definition is named Base[C1, ..., Cn] and its field types
\* are the generic's with each type-parameter name replaced by the concrete
\* name of the same position; a field that mentions no parameter is unchanged.
C6_SubstitutionCorrect ==
    \A n \in 1..Len(instLog) :
        instLog[n].outcome = "synthesized" =>
            LET e == instLog[n]
                generic == structDefinitions[e.generic]
            IN /\ e.def.Name = e.generic.Name \o <<"[">> \o Join(e.display, <<",", " ">>)
                               \o <<"]">>
               /\ Len(e.def.Fields) = Len(generic.Fields)
               /\ \A i \in 1..Len(generic.Fields) :
                     e.def.Fields[i].Type =
                        Substituted(generic.Fields[i].Type, generic.TypeParams, e.display)

\* A spelling with one leading pointer, slice or map decoration, and the name
\* it decorates.
Decorations == { <<"*">>, <<"[","]">>, <<"m","a","p","[","s","t","r","i","n","g","]">> }

Decorated(typ) ==
    \E d \in Decorations : HasPrefix(typ, d) /\ Len(typ) > Len(d)

Undecorated(typ) ==
    LET d == CHOOSE x \in Decorations : HasPrefix(typ, x)
    IN SubSeq(typ, Len(d) + 1, Len(typ))

\* C11: a reference spelled *Name, []Name or map[K]Name resolves as Name does
\* in the same context: when the context package declares Name, a structure
\* called Name is found for the decorated spelling too.
C11_DecorationsStripped ==
    (/\ lastRes.site # "none"
     /\ Decorated(lastRes.typ)
     /\ Unqualified(Undecorated(lastRes.typ))
     /\ StructKey(lastRes.ctx, Undecorated(lastRes.typ)) \in DOMAIN structDefinitions) =>
        /\ lastRes.found
        /\ lastRes.key.Name = Undecorated(lastRes.typ)

\* The structures a reference leads to in the catalog: the one the context
\* package declares under that name, and those its fields lead to in turn.
RECURSIVE Reaches(_, _, _, _)
Reaches(defs, pkg, typ, seen) ==
    LET key == StructKey(pkg, typ)
    IN IF ~Unqualified(typ) \/ key \notin DOMAIN defs \/ key \in seen
       THEN {}
       ELSE {key} \cup UNION { Reaches(defs, pkg, t, seen \cup {key}) :
                                 t \in FieldTypes(defs, key) }

\* C12: the section of a documented function holds the table of every catalog
\* structure its parameter types lead to, as it does for the result type.
C12_ParameterStructuresRendered ==
    \A n \in 1..Len(sections) :
        (pc = "done" \/ n < Len(sections)) =>
            \A i \in 1..Len(apiFunctions[n].Parameters) :
                \A k \in Reaches(structDefinitions, apiFunctions[n].PackageName,
                                  apiFunctions[n].Parameters[i].Type, {}) :
                    \E w \in 1..Len(sections[n].written) : sections[n].written[w] = k

\* A .go source file ParseProject's walk reaches.
Collected(f) == f.Dir \notin SkippedDirs /\ f.GoFile

\* C13: when a source file of the tree cannot be read or parsed, ParseProject
\* returns an error, and neither functions nor a catalog.
C13_UnreadableFileIsFatal ==
    (/\ entry = "project"
     /\ pc = "done"
     /\ \E i \in 1..Len(files) :
           Collected(files[i]) /\ (files[i].WalkErr \/ ~files[i].Parses)) =>
        /\ err # "nil"
        /\ structDefinitions = <<>>
        /\ apiFunctions = <<>>

\* A result type no catalog entry can stand for: a qualified name whose target
\* key is not declared, or a bare name no package declares.
Unmappable(typ, aliases, defs) ==
    \/ Qualified(typ) /\ QualifiedTarget(typ, aliases) \notin DOMAIN defs
    \/ /\ Unqualified(typ)
       /\ ~Decorated(typ)
       /\ \A k \in DOMAIN defs : k.Name # typ

\* A function with a result, whose results are all unmappable and which names
\* no additional structure.
OnlyUnmappable(apiFunc) ==
    /\ Len(apiFunc.Results) > 0
    /\ apiFunc.AdditionalStructs = <<>>
    /\ \A i \in 1..Len(apiFunc.Results) :
          Unmappable(apiFunc.Results[i].Type, apiFunc.ImportAliases, structDefinitions)

\* C14: a result type that maps to no catalog entry is not fatal: the section
\* of the function is written with the raw spelling in its Results table and
\* without a structure table, every function gets its section, and
\* GenerateDocumentation returns nil.
C14_UnresolvedResultIsNotFatal ==
    entry = "generate" =>
        /\ \A n \in 1..Len(sections) :
              /\ sections[n].Command = apiFunctions[n].Command
              /\ sections[n].Results =
                    [i \in 1..Len(apiFunctions[n].Results) |-> apiFunctions[n].Results[i].Type]
              /\ OnlyUnmappable(apiFunctions[n]) => sections[n].written = <<>>
        /\ (pc \in {"results", "print", "additional"} /\ OnlyUnmappable(CurFunc)) =>
              (written = <<>> /\ pc # "print")
        /\ pc = "done" => (err = "nil" /\ Len(sections) = Len(apiFunctions))
        /\ pc # "done" => err = "none"

C14_Witness ==
    /\ entry = "generate"
    /\ pc = "done"
    /\ Len(apiFunctions) = 2
    /\ OnlyUnmappable(apiFunctions[1])
    /\ sections[1].Results = <<nB>>
    /\ sections[1].written = <<>>
    /\ sections[2].written # <<>>

\* The declaration sites of key in the files ParseProject parses, as
\* <<file, declaration>> positions.
Sites(key) ==
    UNION { { <<i, j>> : j \in { d \in 1..Len(files[i].Structs) :
                                   files[i].Structs[d].Name = key.Name } } :
            i \in { f \in 1..Len(files) : /\ Collected(files[f])
                                          /\ files[f].Parses
                                          /\ files[f].Package = key.Package } }

Later(a, b) == a[1] > b[1] \/ (a[1] = b[1] /\ a[2] >= b[2])

LastSite(key) == CHOOSE a \in Sites(key) : \A b \in Sites(key) : Later(a, b)

DeclaredKeys ==
    UNION { { StructKey(files[i].Package, files[i].Structs[j].Name) :
                j \in 1..Len(files[i].Structs) } : i \in 1..Len(files) }

\* C15: when ParseProject has returned without error, each key declared in a
\* parsed file holds the definition of its last declaration in walk order,
\* earlier declarations being replaced without an error.
C15_LastDeclarationWins ==
    (entry = "project" /\ pc = "done" /\ err = "nil") =>
        \A key \in DeclaredKeys :
            Sites(key) # {} =>
                /\ key \in DOMAIN structDefinitions
                /\ LET site == LastSite(key)
                       decl == files[site[1]].Structs[site[2]]
                   IN structDefinitions[key] = StructDefinition(decl.Name, decl.Fields)

C15_Witness ==
    /\ entry = "project"
    /\ pc = "done"
    /\ err = "nil"
    /\ files = <<fileB, fileB2>>
    /\ structDefinitions[hB] = StructDefinition(nB, <<tInt>>)

(***************************************************************************)
(* At most one result per function.                                        *)
(***************************************************************************)

\* The @Result annotations a comment carries.
ResultLines(doc) ==
    { i \in 1..Len(doc) : /\ HasPrefix(TrimSpace(doc[i]), <<"@">>)
                          /\ Fields(TrimSpace(doc[i])) # <<>>
                          /\ Fields(TrimSpace(doc[i]))[1] = tagResult }

\* The error the scan of a comment ends with, "nil" when every @Command,
\* @Parameter and @Error annotation is well-formed.
ScanError(doc) ==
    scanLines([apiFunc |-> newAPIFunction(<<>>, <<>>), resultAnnotations |-> <<>>,
               err |-> "nil"], doc).err

AtMostOneResult == \A i \in 1..Len(apiFunctions) : Len(apiFunctions[i].Results) <= 1

ManyResultsReturned ==
    /\ entry = "project"
    /\ walk.returned.err # "none"
    /\ Cardinality(ResultLines(walk.returned.doc)) >= 2

ManyResultsNotAppended ==
    (/\ entry = "project"
     /\ pc = "function"
     /\ Cardinality(ResultLines(CurFile.Funcs[walk.decl].Doc)) >= 2)
        => apiFunctions' = apiFunctions

flagOptional == <<"[","o","p","t","i","o","n","a","l","]">>

IsParameterLine(text) ==
    /\ HasPrefix(TrimSpace(text), <<"@">>)
    /\ Fields(TrimSpace(text)) # <<>>
    /\ Fields(TrimSpace(text))[1] = tagParameter

\* The tokens that follow the name and the type of a @Parameter annotation.
AfterType(text) == SliceFrom(Fields(TrimSpace(text)), 3)

\* The two documented places of the keyword: right after the type
\* (`<Name> <Type> [optional] <Description>`), or as the flag that closes the
\* annotation (`name type description [optional flag]`, written `[optional]`).
KeywordLeads(text) ==
    AfterType(text) # <<>> /\ EqualFold(AfterType(text)[1], kwOptional)

KeywordTrails(text) ==
    AfterType(text) # <<>> /\ EqualFold(AfterType(text)[Len(AfterType(text))], flagOptional)

CarriesOptional(text) == KeywordLeads(text) \/ KeywordTrails(text)

\* The annotation's description, the keyword left out.
DescriptionOf(text) ==
    LET rest == AfterType(text)
    IN IF KeywordLeads(text) THEN Join(SliceFrom(rest, 1), <<" ">>)
       ELSE IF KeywordTrails(text) THEN Join(SubSeq(rest, 1, Len(rest) - 1), <<" ">>)
       ELSE Join(rest, <<" ">>)

\* C17: each parameter of an accepted function has Required false exactly
\* when its @Parameter annotation carries the optional keyword, in any letter
\* case, and a description without the keyword.
C17_RequiredUnlessOptional ==
    (entry = "project" /\ walk.returned.included) =>
        LET lines == SelectSeq(walk.returned.doc, IsParameterLine)
            params == apiFunctions[Len(apiFunctions)].Parameters
        IN /\ Len(params) = Len(lines)
           /\ \A i \in 1..Len(lines) :
                /\ params[i].Required = ~CarriesOptional(lines[i])
                /\ params[i].Description = DescriptionOf(lines[i])

(***************************************************************************)
(* Termination of printStructDefinitionInline.                              *)
(***************************************************************************)

\* C18: a call of printStructDefinitionInline on a catalog key returns after
\* finitely many recursive calls: the recursion never nests deeper than the
\* catalog has keys, so the stack is never exhausted.
C18_PrintTerminates ==
    entry = "generate" =>
        /\ pc # "overflow"
        /\ pc = "print" => Len(stack) <= Cardinality(DOMAIN structDefinitions)

(***************************************************************************)
(* Instantiation with the wrong number of arguments.                       *)
(***************************************************************************)

\* The request names a declared generic and gives it a number of arguments
\* other than the number of its type parameters.
CountMismatch(e) ==
    /\ e.generic \in DOMAIN structDefinitions
    /\ Len(structDefinitions[e.generic].TypeParams) > 0
    /\ Len(structDefinitions[e.generic].TypeParams) # Len(e.args)

\* C19: a request whose argument count differs from the generic's parameter
\* count is skipped: substitution leaves every field type of the generic as it
\* is, the generic's declaration stays as declared, and no structure is
\* registered under the concrete name.
C19_MismatchSkipsInstantiation ==
    entry = "instantiate" =>
        \A n \in 1..Len(instLog) :
            LET e == instLog[n]
                generic == structDefinitions[e.generic]
            IN CountMismatch(e) =>
                /\ e.outcome = "skipped"
                /\ e.key = noKey
                /\ generic = DeclaredCatalog[e.generic]
                /\ \A i \in 1..Len(generic.Fields) :
                      ReplaceTypeParams(generic.Fields[i].Type, generic.TypeParams,
                                        e.display) = generic.Fields[i].Type
                /\ StructKey(e.generic.Package,
                             ConcreteTypeName(e.generic.Name, e.args, apiFunctions[1],
                                              structDefinitions))
                      \notin DOMAIN structDefinitions

C19_Witness ==
    /\ entry = "instantiate"
    /\ pc = "done"
    /\ Len(instLog) = 3
    /\ instLog[1].additional = tPairA /\ instLog[1].outcome = "skipped"
    /\ instLog[2].additional = tPofAA /\ instLog[2].outcome = "skipped"
    /\ instLog[3].additional = tPairUserA /\ instLog[3].outcome = "synthesized"

(***************************************************************************)
(* Unbalanced brackets.                                                    *)
(***************************************************************************)

\* The bracket depth after the first n characters of a spelling.
BracketDepth(typ, n) ==
    Cardinality({ i \in 1..n : typ[i] = "[" }) - Cardinality({ i \in 1..n : typ[i] = "]" })

Balanced(typ) ==
    /\ \A n \in 1..Len(typ) : BracketDepth(typ, n) >= 0
    /\ BracketDepth(typ, Len(typ)) = 0

\* C20: for a spelling whose square brackets are unbalanced, ParseGenericType
\* returns no type arguments and the whole spelling as the base name.
C20_UnbalancedKeptWhole ==
    (entry = "parse" /\ parse.called /\ ~Balanced(parse.typ)) =>
        /\ parse.out.args = <<>>
        /\ parse.out.base = parse.typ

(***************************************************************************)
(* The package a field type is resolved in.                                *)
(***************************************************************************)

\* The resolution res of the unqualified field type typ is the one made in
\* package pkg: found exactly when pkg declares typ, and then pkg's structure.
ResolvedIn(pkg, typ, res) ==
    Unqualified(typ) =>
        /\ res.found <=> StructKey(pkg, typ) \in DOMAIN structDefinitions
        /\ res.found => res.key = StructKey(pkg, typ)

\* printStructDefinitionInline resolving a field of the structure it prints.
PrintFieldInOwnerPackage ==
    lastRes.site = "field" => ResolvedIn(lastRes.ctx, lastRes.typ, lastRes)

\* collectStructsFromType entered for a field of the structure of its caller.
CollectFieldInOwnerPackage ==
    (/\ entry = "collect"
     /\ pc = "collect"
     /\ Len(stack) >= 2
     /\ Top.pc = "enter"
     /\ stack[Len(stack) - 1].pc = "fields"
     /\ lastRes' # lastRes)
        => ResolvedIn(stack[Len(stack) - 1].key.Package, Top.typ, lastRes')

\* C21: in the traversal of a structure's fields, an unqualified field type is
\* resolved in the package of the structure that owns the field, whatever the
\* package of the function that seeded the traversal: it is found exactly when
\* the owner's package declares it, and the key is the owner's package's.
C21_FieldsResolvedInOwnerPackage ==
    /\ [](PrintFieldInOwnerPackage)
    /\ [][CollectFieldInOwnerPackage]_vars

(***************************************************************************)
(* The arguments of a concrete name.                                       *)
(***************************************************************************)

\* The display name of the argument arg of a request of function apiFunc for a
\* generic of package owner: qualified when the package the argument resolves
\* to is another one than owner.
DisplayName(arg, owner, apiFunc) ==
    LET r == resolvePackageAndType(arg, apiFunc.PackageName, apiFunc.ImportAliases,
                                   structDefinitions)
    IN IF r.typeName = <<>> THEN arg
       ELSE IF r.pkg # owner THEN r.pkg \o <<".">> \o r.typeName
       ELSE r.typeName

\* C22: the concrete name of an instantiation is Base[Arg1, Arg2, ...], each
\* argument qualified with its package exactly when that package differs from
\* the package of the generic declaration, the arguments joined with a comma
\* and one space.
C22_ArgumentsQualifiedAgainstOwner ==
    entry = "instantiate" =>
        \A n \in 1..Len(instLog) :
            LET e == instLog[n]
            IN e.outcome \in {"synthesized", "reused"} =>
                  e.key.Name =
                      e.generic.Name \o <<"[">>
                      \o Join([i \in 1..Len(e.args) |->
                                  DisplayName(e.args[i], e.generic.Package,
                                              apiFunctions[1])],
                              <<",", " ">>)
                      \o <<"]">>

(***************************************************************************)
(* The import-alias table of a file.                                       *)
(***************************************************************************)

\* The identifier of the imported package: the last element of the path.
ImportedPackage(imp) ==
    LET parts == Split(TrimQuotes(imp.Path), "/") IN parts[Len(parts)]

\* The name a file uses for the import.
LocalName(imp) == IF imp.Name # <<>> THEN imp.Name ELSE ImportedPackage(imp)

\* The table that maps each local name to the imported package.
AliasTable(imports) ==
    [a \in { LocalName(imports[i]) : i \in 1..Len(imports) } |->
        ImportedPackage(imports[CHOOSE i \in 1..Len(imports) : LocalName(imports[i]) = a])]

\* C23: the alias table handed to a function of a file maps each import's
\* local name, the explicit alias or else the last element of the path, to the
\* identifier of the imported package.
C23_AliasMapsToPackage ==
    (/\ entry = "project"
     /\ pc = "funcs"
     /\ walk.decl > 1
     /\ walk.returned.included) =>
        apiFunctions[Len(apiFunctions)].ImportAliases = AliasTable(CurFile.Imports)

(***************************************************************************)
(* Collect all, then resolve.                                              *)
(***************************************************************************)

\* The struct declarations ParseProject's walk registers: (file, declaration).
DeclarationSites ==
    UNION { { <<i, j>> : j \in 1..Len(files[i].Structs) } :
            i \in { f \in 1..Len(files) : /\ Collected(files[f])
                                          /\ ~files[f].WalkErr
                                          /\ files[f].Parses } }

\* The walk is in the struct declarations of its current file.
InStructs == pc \in {"structs", "structField"} \/ (pc = "find" /\ ret = "structField")

\* The walk is in the functions of its current file.
InFuncs == pc \in {"funcs", "function"} \/ (pc = "find" /\ ret = "function")

\* The declaration has been registered by the walk.
Registered(site) ==
    \/ site[1] < walk.file
    \/ site[1] = walk.file /\ InFuncs
    \/ site[1] = walk.file /\ InStructs /\ site[2] < walk.decl

\* A type reference is being looked up in the symbol table: a field type of
\* the declaration at hand, or the result type of the function at hand.
LookupDue ==
    \/ /\ pc = "structField"
       /\ walk.field <= Len(CurFile.Structs[walk.decl].Fields)
       /\ LET baseType == resolveType(CurFile.Structs[walk.decl].Fields[walk.field]).baseType
          IN baseType # <<>> /\ ~isBasicType(baseType)
    \/ /\ pc \in {"function", "find"}
       /\ InFuncs
       /\ walk.pending.lookup # <<>>

\* C24: ParseProject registers every struct declaration before it looks any
\* type reference up, and a lookup never starts a scan of the source tree.
C24_CollectAllThenResolve ==
    entry = "project" =>
        /\ LookupDue => \A site \in DeclarationSites : Registered(site)
        /\ pc # "find"

(***************************************************************************)
(* Functions without @Command.                                             *)
(***************************************************************************)

\* The @Command annotations a comment carries.
CommandLines(doc) ==
    { i \in 1..Len(doc) : /\ HasPrefix(TrimSpace(doc[i]), <<"@">>)
                          /\ Fields(TrimSpace(doc[i])) # <<>>
                          /\ Fields(TrimSpace(doc[i]))[1] = tagCommand }

\* parseFunction has returned for a comment without @Command.
NoCommandReturned ==
    /\ entry = "project"
    /\ walk.returned.err # "none"
    /\ CommandLines(walk.returned.doc) = {}

\* The @Result annotations of the comment are one well-formed annotation at
\* most.
ResultsWellFormed(doc) ==
    /\ Cardinality(ResultLines(doc)) <= 1
    /\ \A i \in ResultLines(doc) : Len(Fields(TrimSpace(doc[i]))) >= 3

SearchStarts == entry = "project" /\ Len(stack') > Len(stack)

\* The key of the call that starts is neither registered nor marked.
SearchesUnknownKeyOnly ==
    SearchStarts =>
        /\ stack'[Len(stack')].key \notin DOMAIN structDefinitions
        /\ stack'[Len(stack')].key \notin processedStructs

\* The calls that have not returned are for distinct keys, and the stack is
\* not exhausted.
SearchesNested ==
    entry = "project" =>
        /\ pc # "overflow"
        /\ \A i, j \in 1..Len(stack) : i # j => stack[i].key # stack[j].key

\* C26: findAndParseStruct is never called for a key that is registered in
\* structDefinitions or marked in processedStructs, its nested calls are for
\* distinct keys, and every search returns: ParseProject reaches its end on
\* self-referential and mutually recursive declarations too.
C26_FindTerminates ==
    /\ [][SearchesUnknownKeyOnly]_vars
    /\ [](SearchesNested)
    /\ (entry = "project") ~> (pc = "done")

C26_Witness ==
    /\ entry = "project"
    /\ pc = "find"
    /\ files[1] = fileCycle
    /\ Len(stack) = 2
    /\ stack[1].key = hB
    /\ stack[2].key = hA
    /\ {hA, hB} \subseteq processedStructs

(***************************************************************************)
(* The set collectStructsToDocument returns.                               *)
(***************************************************************************)

\* C27: every key collectStructsToDocument puts in its set is a key of the
\* catalog: a reference that names no catalogued structure adds nothing.
C27_CollectedKeysAreCatalogued ==
    entry = "collect" => structsToDocument \subseteq DOMAIN structDefinitions

(***************************************************************************)
(* What a rejected function leaves behind.                                 *)
(***************************************************************************)

\* parseFunction has just returned an error to the loop over the functions.
FunctionRejected ==
    /\ entry = "project"
    /\ pc = "funcs"
    /\ walk.decl > 1
    /\ walk.returned.err \notin {"none", "nil"}

\* C28: when parseFunction rejects a function, with whatever error, the symbol
\* table and processedStructs are what they were when it was called.
C28_RejectedFunctionLeavesCatalog ==
    FunctionRejected =>
        /\ structDefinitions = walk.before.structDefinitions
        /\ processedStructs = walk.before.processedStructs

(***************************************************************************)
(* Where the structures of the catalog are declared.                       *)
(***************************************************************************)

\* C29: every structure of the catalog ParseProject returns is declared in a
\* non-test .go file outside the vendor and hidden directories: the catalog
\* holds the definition of such a declaration under each of its keys.
C29_NoExcludedDeclarations ==
    (entry = "project" /\ pc = "done" /\ err = "nil") =>
        \A key \in DOMAIN structDefinitions :
            \E site \in Sites(key) :
                structDefinitions[key] =
                    StructDefinition(key.Name, files[site[1]].Structs[site[2]].Fields)

(***************************************************************************)
(* The collected set as a function of the references, not of their order.  *)
(***************************************************************************)

\* The keys one reference names by itself in a context: its own key and those
\* of its type arguments.
RECURSIVE Named(_, _, _)
Named(typ, pkg, aliases) ==
    LET parsed == ParseGenericType(typ)
        r == resolvePackageAndType(parsed.base, pkg, aliases, structDefinitions)
    IN IF IsBasicType(parsed.base) \/ r.typeName = <<>> THEN {}
       ELSE {StructKey(r.pkg, r.typeName)}
            \cup UNION { Named(parsed.args[i], pkg, aliases) : i \in 1..Len(parsed.args) }

\* The keys the fields of a catalogued structure name, in its package.
NamedByFields(key) ==
    IF key \notin DOMAIN structDefinitions THEN {}
    ELSE UNION { Named(structDefinitions[key].Fields[i].Type, key.Package, <<>>) :
                 i \in 1..Len(structDefinitions[key].Fields) }

\* The least set that holds keys and is closed under NamedByFields.
RECURSIVE FieldClosure(_)
FieldClosure(keys) ==
    LET more == keys \cup UNION { NamedByFields(k) : k \in keys }
    IN IF more = keys THEN keys ELSE FieldClosure(more)

\* The references of the API functions as a set: (type, package, aliases).
SeedSet ==
    UNION { { <<Seeds(apiFunctions[f])[i], apiFunctions[f].PackageName,
                apiFunctions[f].ImportAliases>> : i \in 1..Len(Seeds(apiFunctions[f])) } :
            f \in 1..Len(apiFunctions) }

\* C30: the set collectStructsToDocument returns is determined by the set of
\* references of the API functions: it is the closure, under the fields of
\* catalogued structures, of the keys the references name, whatever the order
\* of the functions and of their parameters and results.
C30_CollectedSetIgnoresOrder ==
    (entry = "collect" /\ pc = "done") =>
        structsToDocument =
            FieldClosure(UNION { Named(seed[1], seed[2], seed[3]) : seed \in SeedSet })

C30_Witness ==
    /\ entry = "collect"
    /\ pc = "done"
    /\ Len(apiFunctions) = 2
    /\ Seeds(apiFunctions[1]) = <<nB>>
    /\ Seeds(apiFunctions[2]) = <<nA>>
    /\ hB \in DOMAIN structDefinitions
    /\ FieldTypes(structDefinitions, hB) = {tQualMA}
    /\ mA \in structsToDocument
    /\ visited = {hA, hB, mA}

====
